---- MODULE Spec2Model ----
(***************************************************************************)
(* Model of the diffusion-regime analysis pipeline of the TDA analysis     *)
(* system (modules/calcs.py): tail-region detection and validation, the    *)
(* three coordinate transforms, the noise-filtered linear regression, the  *)
(* fit-quality grade, the diffusion-coefficient estimate, the literature   *)
(* lookup, and analyze_diffusion_behavior, which composes them.            *)
(*                                                                         *)
(* Numbers.  The code computes on IEEE doubles.  Here a float is a         *)
(* fixed-point integer, extended with three tokens:                        *)
(*   NaN   not-a-number: every comparison with it is false;                *)
(*   Inf   +infinity: greater than every number, not finite;               *)
(*   Tiny  a positive number not above noise_threshold (1e-12).            *)
(* Units: time in minutes; rate and cumulative in 1e-3; thickness in       *)
(* 1e-3 cm; temperatures in 1e-2 degrees.  One unit of any quantity is far *)
(* above 1e-12, so among finite values only 0 and Tiny are "not above the  *)
(* noise threshold".                                                       *)
(***************************************************************************)
EXTENDS Integers, Sequences, FiniteSets, TLC

VARIABLES
    time_minutes,         \* caller's time series (minutes)
    desorption_rate,      \* caller's rate series
    cumulative_hydrogen,  \* caller's cumulative series
    pc,                   \* "ready": inputs exist, no call made; "done": a call returned or raised
    call,                 \* the operation called and its arguments
    ret,                  \* what the call returned or raised
    engine,               \* the attributes of the DiffusionAnalysisEngine the calls are made on
    history,              \* the analyze calls the engine has served, with what each gave back
    calibrations          \* CalibrationManager.calibrations: calibration id -> calibration

vars == <<time_minutes, desorption_rate, cumulative_hydrogen, pc, call, ret,
          engine, history, calibrations>>

-----------------------------------------------------------------------------
(* Floats *)

NaN == 1000001
Inf == 1000002
Tiny == 1000003

IsNum(v) == v \notin {NaN, Inf, Tiny}

\* np.isfinite
IsFinite(v) == v \notin {NaN, Inf}

\* An order-preserving key: Tiny sits strictly between 0 and one unit.
Key(v) == IF v = Inf THEN 2 * Inf ELSE IF v = Tiny THEN 1 ELSE 2 * v

\* a < b, a <= b on floats (false when either side is NaN)
Lt(a, b) == a # NaN /\ b # NaN /\ Key(a) < Key(b)
Le(a, b) == a # NaN /\ b # NaN /\ Key(a) <= Key(b)
Gt(a, b) == Lt(b, a)
Ge(a, b) == Le(b, a)

\* a < m * (num/den), for the threshold max_rate * peak_fraction.  Tiny stands
\* for one value, so Tiny < Tiny * f is false for every fraction f <= 1.
LtFraction(a, m, num, den) ==
    IF a = NaN \/ m = NaN THEN FALSE
    ELSE IF m = Inf THEN a # Inf
    ELSE IF a = Inf THEN FALSE
    ELSE IF m = Tiny THEN Lt(a, Tiny) /\ num <= den
    ELSE IF a = Tiny THEN m * num > 0
    ELSE a * den < m * num

\* The increasing sequence of the indices 1..n that are in S (numpy boolean-mask selection
\* keeps the input order).
IndexSeq(n, S) == SelectSeq([i \in 1..n |-> i], LAMBDA i : i \in S)

\* Largest element of a non-empty sequence of floats without NaN (np.max).
MaxOf(s) == CHOOSE v \in {s[i] : i \in DOMAIN s} : \A i \in DOMAIN s : Le(s[i], v)

-----------------------------------------------------------------------------
(* A call either returns a value or raises TDACalculationError.  The message
   of a raised error is a chain of strings, outermost wrapper first: every
   "except Exception as e: raise TDACalculationError(f'...: {str(e)}')"
   prepends one element.  `data` holds what the message interpolates besides
   the chain (the validation warnings). *)

Returned(v) == [ok |-> TRUE, value |-> v, error |-> << >>, data |-> << >>]

Raised(chain, d) == [ok |-> FALSE, value |-> << >>, error |-> chain, data |-> d]

\* a re-raise that keeps the prefix and loses str(e)
RewrapWithoutCause(prefix, r) == Raised(<<prefix>>, << >>)

\* raise TDACalculationError(f"<prefix>: {str(e)}")
Rewrap(prefix, r) == Raised(<<prefix>> \o r.error, r.data)

\* a result passes through an except clause; a failure is raised anew
Reraised(prefix, r) == IF r.ok THEN r ELSE Rewrap(prefix, r)

-----------------------------------------------------------------------------
(* TailRegionAnalyzer.find_tail_start *)

MinSeriesLen == 10
MinValidPoints == 5

\* a valid_mask without the rate > 0 test
FindTailValidAnyRate(time, rate) ==
    {i \in 1..Len(time) : IsFinite(rate[i]) /\ IsFinite(time[i])}

\* indices that survive valid_mask
FindTailValid(time, rate) ==
    {i \in 1..Len(time) : Gt(rate[i], 0) /\ IsFinite(rate[i]) /\ IsFinite(time[i])}

\* candidates chosen by the threshold alone, whatever their time
FindTailCandidatesAnyTime(ftime, frate, min_time, pf) ==
    {k \in 1..Len(ftime) : LtFraction(frate[k], MaxOf(frate), pf[1], pf[2])}

\* indices, into the filtered arrays, of the tail candidates
FindTailCandidates(ftime, frate, min_time, pf) ==
    {k \in 1..Len(ftime) :
        /\ LtFraction(frate[k], MaxOf(frate), pf[1], pf[2])
        /\ Gt(ftime[k], min_time)}

\* tail_candidates[-1]
FirstCandidateLast(cands) == cands[Len(cands)]

\* tail_candidates[0]
FirstCandidate(cands) == cands[1]

\* an index at half of the filtered array
FallbackIndexHalf(ftime) == (Len(ftime) \div 2) + 1

\* len(time_array)//3 on the filtered array, as a 1-based index
FallbackIndex(ftime) == (Len(ftime) \div 3) + 1

find_tail_start(time, rate, min_time, pf) ==
    IF Len(time) # Len(rate) \/ Len(time) < MinSeriesLen
    THEN Raised(<<"Failed to find tail start", "Insufficient data for tail analysis">>, << >>)
    ELSE
      LET valid == IndexSeq(Len(time), FindTailValid(time, rate))
          ftime == [k \in 1..Len(valid) |-> time[valid[k]]]
          frate == [k \in 1..Len(valid) |-> rate[valid[k]]]
      IN  IF Len(valid) < MinValidPoints
          THEN Raised(<<"Failed to find tail start", "Insufficient valid data points">>, << >>)
          ELSE
            LET cidx == IndexSeq(Len(ftime), FindTailCandidates(ftime, frate, min_time, pf))
                tail_candidates == [k \in 1..Len(cidx) |-> ftime[cidx[k]]]
            IN  IF Len(tail_candidates) = 0
                THEN LET third == ftime[FallbackIndex(ftime)]
                     IN  Returned(IF Gt(third, min_time) THEN third ELSE min_time)
                ELSE Returned(FirstCandidate(tail_candidates))

-----------------------------------------------------------------------------
(* TailRegionAnalyzer.validate_tail_region *)

MinTailPoints == 10
ShortTailMinutes == 60

\* a mask that compares with 0 instead of tail_start
TailMaskFromZero(time, tail_start) == {i \in 1..Len(time) : Ge(time[i], 0)}

\* tail_mask
TailMask(time, tail_start) == {i \in 1..Len(time) : Ge(time[i], tail_start)}

\* a valid_mask that does not look at the rate
ValidTailAnyRate(time, rate, tail_start) ==
    {i \in TailMask(time, tail_start) : IsFinite(time[i])}

\* tail_mask, then valid_mask: indices of the tail entries that count
ValidTail(time, rate, tail_start) ==
    {i \in TailMask(time, tail_start) :
        Gt(rate[i], 0) /\ IsFinite(rate[i]) /\ IsFinite(time[i])}

ValidationWarnings(num_points, duration) ==
    (IF num_points < MinTailPoints
     THEN <<"Insufficient data points for reliable analysis (minimum 10 recommended)">>
     ELSE << >>)
    \o
    (IF duration < ShortTailMinutes
     THEN <<"Short tail duration may affect analysis quality">>
     ELSE << >>)

\* a validity test that lets 9 points pass
IsValidLoose(num_points) == num_points >= MinTailPoints - 1

\* validation['is_valid']
IsValid(num_points) == num_points >= MinTailPoints

validate_tail_region(time, rate, tail_start) ==
    IF Len(time) # Len(rate)
    THEN \* rate_array[tail_mask]: the boolean mask has the length of time_array
         Raised(<<"Tail validation failed", "IndexError">>, << >>)
    ELSE
      LET idx == IndexSeq(Len(time), ValidTail(time, rate, tail_start))
          num_points == Len(idx)
          duration == IF num_points > 1 THEN time[idx[num_points]] - time[idx[1]] ELSE 0
      IN  Returned([is_valid |-> IsValid(num_points),
                    num_points |-> num_points,
                    duration |-> duration,
                    min_time |-> IF num_points > 0 THEN time[idx[1]] ELSE 0,
                    max_time |-> IF num_points > 0 THEN time[idx[num_points]] ELSE 0,
                    warnings |-> ValidationWarnings(num_points, duration)])

-----------------------------------------------------------------------------
(* Fixed-point square root and logarithm *)

RECURSIVE SqrtSearch(_, _, _)
SqrtSearch(n, lo, hi) ==
    IF lo >= hi THEN lo
    ELSE LET mid == (lo + hi + 1) \div 2
         IN  IF mid * mid <= n THEN SqrtSearch(n, mid, hi) ELSE SqrtSearch(n, lo, mid - 1)

\* floor(sqrt(n)), n >= 0
ISqrt(n) == SqrtSearch(n, 0, IF n < 46340 THEN n ELSE 46340)

\* 1/sqrt(t*60) in units of 1e-5 s^-1/2, t > 0 in minutes; 1/sqrt(inf) = 0
InvSqrtSeconds(t) == IF t = Inf THEN 0 ELSE 10000000 \div ISqrt(t * 60 * 10000)

\* sqrt(t*60) in units of 1e-1 s^1/2, t > 0 finite
SqrtSeconds(t) == ISqrt(t * 60 * 100)

RECURSIVE Log10Bits(_, _, _)
\* binary digits of log10(m/1000), 1000 <= m < 10000, by repeated squaring;
\* returns the fraction in 1/128
Log10Bits(m, bit, acc) ==
    IF bit = 0 THEN acc
    ELSE LET sq == (m * m) \div 1000
         IN  IF sq >= 10000
             THEN Log10Bits(sq \div 10, bit \div 2, acc + bit)
             ELSE Log10Bits(sq, bit \div 2, acc)

RECURSIVE Log10Scaled(_, _)
\* 100 * log10(v / 1000), v >= 1, with `chars` the hundredfold characteristic so far
Log10Scaled(v, chars) ==
    IF v >= 10000 THEN Log10Scaled(v \div 10, chars + 100)
    ELSE IF v < 1000 THEN Log10Scaled(v * 10, chars - 100)
    ELSE chars + (Log10Bits(v, 64, 0) * 100) \div 128

\* 100 * log10(v) for an integer v >= 1
Log10Centi(v) == Log10Scaled(v, 300)

\* 100 * log10 of a positive finite rate (unit 1e-3); log10(1e-12) = -12.
\* The result is 0 only for the rate 1.0, whose logarithm is exactly 0.
Log10Rate(r) ==
    IF r = Tiny THEN -1200
    ELSE IF r = 1000 THEN 0
    ELSE LET l == Log10Centi(r) - 300 IN IF l = 0 THEN 1 ELSE l

-----------------------------------------------------------------------------
(* DiffusionPlotCalculator: the three coordinate transforms.  Each returns
   the pair (x, y); `src` records, for each returned point, the index of the
   input entry it was computed from. *)

MinTransformPoints == 3

Points(src, x, y) == [src |-> src, x |-> x, y |-> y]

\* tail_mask, then valid_mask of calculate_1_sqrt_t_plot
Kept1SqrtT(time, rate, tail_start) ==
    {i \in TailMask(time, tail_start) :
        Gt(rate[i], 0) /\ IsFinite(rate[i]) /\ Gt(time[i], 0)}

calculate_1_sqrt_t_plot(time, rate, tail_start) ==
    IF Len(time) # Len(rate)
    THEN Raised(<<"1/sqrt(t) calculation failed", "IndexError">>, << >>)
    ELSE
      LET src == IndexSeq(Len(time), Kept1SqrtT(time, rate, tail_start))
      IN  IF Len(src) < MinTransformPoints
          THEN Raised(<<"1/sqrt(t) calculation failed",
                        "Insufficient valid data points in tail region">>, << >>)
          ELSE Returned(Points(src,
                               [k \in 1..Len(src) |-> InvSqrtSeconds(time[src[k]])],
                               [k \in 1..Len(src) |-> rate[src[k]]]))

\* a sqrt(t) mask without the time > 0 test
KeptSqrtTWithZeroTime(time, cumul, tail_start) ==
    {i \in TailMask(time, tail_start) : IsFinite(cumul[i]) /\ IsFinite(time[i])}

\* tail_mask, then valid_mask of calculate_sqrt_t_plot
KeptSqrtT(time, cumul, tail_start) ==
    {i \in TailMask(time, tail_start) :
        IsFinite(cumul[i]) /\ IsFinite(time[i]) /\ Gt(time[i], 0)}

calculate_sqrt_t_plot(time, cumul, tail_start) ==
    IF Len(time) # Len(cumul)
    THEN Raised(<<"sqrt(t) calculation failed", "IndexError">>, << >>)
    ELSE
      LET src == IndexSeq(Len(time), KeptSqrtT(time, cumul, tail_start))
      IN  IF Len(src) < MinTransformPoints
          THEN Raised(<<"sqrt(t) calculation failed",
                        "Insufficient valid data points in tail region">>, << >>)
          ELSE Returned(Points(src,
                               [k \in 1..Len(src) |-> SqrtSeconds(time[src[k]])],
                               [k \in 1..Len(src) |-> cumul[src[k]]]))

\* a log-log mask without the rate > 0 test
KeptLogLogAnySign(time, rate, tail_start) ==
    {i \in TailMask(time, tail_start) :
        IsFinite(rate[i]) /\ rate[i] # 0 /\ Gt(time[i], 0) /\ IsFinite(time[i])}

\* tail_mask, then valid_mask of calculate_log_log_plot
KeptLogLog(time, rate, tail_start) ==
    {i \in TailMask(time, tail_start) :
        Gt(rate[i], 0) /\ IsFinite(rate[i]) /\ Gt(time[i], 0) /\ IsFinite(time[i])}

\* np.log10 of a rate the mask let through
LogOfRate(r) == IF Gt(r, 0) THEN Log10Rate(r) ELSE NaN

calculate_log_log_plot(time, rate, tail_start) ==
    IF Len(time) # Len(rate)
    THEN Raised(<<"Log-log calculation failed", "IndexError">>, << >>)
    ELSE
      LET src == IndexSeq(Len(time), KeptLogLog(time, rate, tail_start))
      IN  IF Len(src) < MinTransformPoints
          THEN Raised(<<"Log-log calculation failed",
                        "Insufficient valid data points in tail region">>, << >>)
          ELSE Returned(Points(src,
                               [k \in 1..Len(src) |-> Log10Centi(time[src[k]])],
                               [k \in 1..Len(src) |-> LogOfRate(rate[src[k]])]))

-----------------------------------------------------------------------------
(* LinearRegressionAnalyzer.perform_linear_regression.

   x and y arrive in the fixed-point units of the transform that produced
   them.  The regression's outputs are fixed-point too:
     slope      in 1e-4 (y unit)/(x unit); for the 1/sqrt(t) plot that is
                1e-2 of the physical unit, so the physical slope 10 is 1000;
     intercept  in the y unit;
     r_squared  in 1e-4;
     p_value    in 1e-3. *)

MinRegressionPoints == 3

RECURSIVE SumSeq(_)
SumSeq(s) == IF s = << >> THEN 0 ELSE Head(s) + SumSeq(Tail(s))

Abs(v) == IF v < 0 THEN -v ELSE v

RECURSIVE Reduce(_, _)
\* a pair (a, b) divided by a common power of two until |b| < 2^15
Reduce(a, b) == IF Abs(b) < 32768 THEN <<a, b>> ELSE Reduce(a \div 2, b \div 2)

\* round-toward-zero (a * scale) / b, b # 0, without leaving 32 bits
ScaledDiv(a, b, scale) ==
    LET r == Reduce(Abs(a), Abs(b))
        q == (r[1] \div r[2]) * scale + ((r[1] % r[2]) * scale) \div r[2]
    IN  IF (a < 0) = (b < 0) THEN q ELSE -q

\* a noise mask that drops nothing but NaN
NoiseKeepsAll(v) == v # NaN

\* np.abs(y) > noise_threshold, noise_threshold = 1e-12: one fixed-point unit
\* is far above the threshold, Tiny and 0 are not, abs(nan) > t is false
AboveNoise(v) == v = Inf \/ (IsNum(v) /\ v # 0)

\* Student t: the square of the two-sided critical value, in 1e-1, for
\* alpha = 0.10, 0.05, 0.01 and df = 1..13 degrees of freedom
TCritSq ==
    <<  <<399, 1614, 40522>>, <<85, 185, 985>>, <<55, 101, 341>>, <<45, 77, 212>>,
        <<41, 66, 163>>, <<38, 60, 137>>, <<36, 56, 122>>, <<35, 53, 113>>,
        <<34, 51, 106>>, <<33, 50, 100>>, <<32, 48, 96>>, <<32, 47, 93>>,
        <<31, 47, 91>> >>

\* whether the two-sided p-value of r_squared (1e-4) at df is below level a
\* (1: 0.10, 2: 0.05, 3: 0.01): t^2 = r^2 df / (1 - r^2) against the critical value
PBelow(r2, df, a) == r2 * df * 10 > TCritSq[df][a] * (10000 - r2)

\* the p-value (1e-3), known to the interval between the three levels
PValue(r2, df) ==
    IF PBelow(r2, df, 3) THEN (IF r2 >= 10000 THEN 0 ELSE 5)
    ELSE IF PBelow(r2, df, 2) THEN 30
    ELSE IF PBelow(r2, df, 1) THEN 70
    ELSE IF r2 = 0 THEN 1000 ELSE 500

\* the fixed-point value of a finite float: Tiny is less than half a unit
Fix(v) == IF v = Tiny THEN 0 ELSE v

\* scipy.stats.linregress on n >= 3 points.  A point that is not finite makes
\* the means and the covariances NaN, and with them every output: no
\* comparison in linregress is true of NaN, so that nothing is raised or
\* clamped.  (x and y are not all equal to one infinite value.)
linregress(xs, ys) ==
    LET n == Len(xs)
        x == [k \in 1..n |-> Fix(xs[k])]
        y == [k \in 1..n |-> Fix(ys[k])]
        sx == SumSeq(x)
        sy == SumSeq(y)
        sxx == SumSeq([k \in 1..n |-> x[k] * x[k]])
        syy == SumSeq([k \in 1..n |-> y[k] * y[k]])
        sxy == SumSeq([k \in 1..n |-> x[k] * y[k]])
        ssxm == n * sxx - sx * sx
        ssym == n * syy - sy * sy
        ssxym == n * sxy - sx * sy
    IN  IF \E k \in 1..n : ~IsFinite(xs[k]) \/ ~IsFinite(ys[k])
        THEN Returned([slope |-> NaN, intercept |-> NaN, r_squared |-> NaN, p_value |-> NaN])
        ELSE IF ssxm = 0
        THEN Raised(<<"Cannot calculate a linear regression if all x values are identical">>, << >>)
        ELSE
          LET slope == ScaledDiv(ssxym, ssxm, 10000)
              r2raw == IF ssym = 0 THEN 0
                       ELSE (slope * ScaledDiv(ssxym, ssym, 10000)) \div 10000
              r2 == IF r2raw > 10000 THEN 10000 ELSE r2raw
          IN  Returned([slope |-> slope,
                        intercept |-> ScaledDiv(sy - ScaledDiv(slope, 10000, sx), n, 1),
                        r_squared |-> r2,
                        p_value |-> PValue(r2, n - 2)])

\* number of points of the fit line
FitPoints == 100

MinInt(s) == CHOOSE v \in {s[k] : k \in DOMAIN s} : \A k \in DOMAIN s : v <= s[k]

MaxInt(s) == CHOOSE v \in {s[k] : k \in DOMAIN s} : \A k \in DOMAIN s : s[k] <= v

\* np.linspace(lo, hi, 100), in 1/99 of the x unit so that every value is exact.
\* lo is a number or NaN.  The values are start + i * step with step =
\* (hi - lo) / 99, and the last one is set to hi: a NaN end makes every value
\* NaN, and an infinite hi makes the step infinite, so that the first value is
\* 0 * inf = NaN and the others are infinite.
linspace(lo, hi) ==
    IF lo = NaN \/ hi = NaN THEN [i \in 1..FitPoints |-> NaN]
    ELSE IF hi = Inf THEN [i \in 1..FitPoints |-> IF i = 1 THEN NaN ELSE Inf]
    ELSE [i \in 1..FitPoints |-> (FitPoints - 1) * lo + (i - 1) * (hi - lo)]

\* slope * fit_x + intercept, in the y unit (fit_x in 1/99 of the x unit,
\* slope in 1e-4)
FitLine(slope, intercept, fit_x) ==
    [i \in 1..Len(fit_x) |->
        IF slope = NaN \/ intercept = NaN \/ ~IsNum(fit_x[i]) THEN NaN
        ELSE intercept + (slope * (fit_x[i] \div (FitPoints - 1))) \div 10000]

perform_linear_regression(x_data, y_data) ==
    IF Len(x_data) # Len(y_data) \/ Len(x_data) < MinRegressionPoints
    THEN Raised(<<"Linear regression failed", "Insufficient data for regression analysis">>, << >>)
    ELSE
      LET keep == IndexSeq(Len(y_data), {k \in 1..Len(y_data) : AboveNoise(y_data[k])})
          x_filtered == [k \in 1..Len(keep) |-> x_data[keep[k]]]
          y_filtered == [k \in 1..Len(keep) |-> y_data[keep[k]]]
      IN  IF Len(keep) < MinRegressionPoints
          THEN Raised(<<"Linear regression failed", "Insufficient data above noise threshold">>, << >>)
          ELSE
            LET fit == linregress(x_filtered, y_filtered)
            IN  IF ~fit.ok THEN Rewrap("Linear regression failed", fit)
                ELSE
                  LET xs == [k \in 1..Len(keep) |-> Fix(x_filtered[k])]
                      has_nan == \E k \in 1..Len(keep) : xs[k] = NaN
                      fit_x == linspace(IF has_nan THEN NaN ELSE MinInt(xs),
                                        IF has_nan THEN NaN ELSE MaxInt(xs))
                  IN  Returned([slope |-> fit.value.slope,
                                intercept |-> fit.value.intercept,
                                r_squared |-> fit.value.r_squared,
                                p_value |-> fit.value.p_value,
                                num_points |-> Len(keep),
                                fit_x |-> fit_x,
                                fit_y |-> FitLine(fit.value.slope, fit.value.intercept,
                                                  fit_x)])

-----------------------------------------------------------------------------
(* LinearRegressionAnalyzer.assess_fit_quality: r_squared in 1e-4, p_value in 1e-3 *)

\* the grade with the rules nested under the r_squared tests
assess_fit_qualityNested(r_squared, p_value, num_points) ==
    IF r_squared >= 9500
    THEN (IF p_value < 10 /\ num_points >= 10 THEN "Excellent" ELSE "Poor")
    ELSE IF r_squared >= 9000
    THEN (IF p_value < 50 /\ num_points >= 8 THEN "Good" ELSE "Poor")
    ELSE IF r_squared >= 8000 /\ p_value < 100 /\ num_points >= 5 THEN "Fair"
    ELSE "Poor"

\* the grade with strict comparisons on num_points
assess_fit_qualityStrict(r_squared, p_value, num_points) ==
    IF r_squared >= 9500 /\ p_value < 10 /\ num_points > 10 THEN "Excellent"
    ELSE IF r_squared >= 9000 /\ p_value < 50 /\ num_points > 8 THEN "Good"
    ELSE IF r_squared >= 8000 /\ p_value < 100 /\ num_points > 5 THEN "Fair"
    ELSE "Poor"

assess_fit_quality(r_squared, p_value, num_points) ==
    IF r_squared >= 9500 /\ p_value < 10 /\ num_points >= 10 THEN "Excellent"
    ELSE IF r_squared >= 9000 /\ p_value < 50 /\ num_points >= 8 THEN "Good"
    ELSE IF r_squared >= 8000 /\ p_value < 100 /\ num_points >= 5 THEN "Fair"
    ELSE "Poor"

-----------------------------------------------------------------------------
(* DiffusionCoefficientCalculator.calculate_diffusion_coefficient:
   D = |pi (slope L)^2 / (4 delta_c^2)|, delta_c = 1.  slope in 1e-2 (the
   1/sqrt(t) plot), thickness in 1e-3 cm, the concentration ratio in 1e-3,
   D in 1e-3; a non-zero product rounds up, so that D = 0 only for
   slope * thickness = 0.

   The arguments are Python floats, and may be any of them: besides the
   numbers, NaN, Inf, -Inf, and Huge and -Huge, which stand for 1e200 and
   -1e200: finite, but with a square beyond the largest double.  Python's
   float ** raises OverflowError on such a square (it does not return inf),
   and the function's except clause wraps it. *)

Huge == 1000004

DefaultConcentrationRatio == 1000

\* a * b on floats; the thicknesses of interest lie between 1e-3 and 1e3, so
\* that a Huge factor times a non-zero number is Huge still
FloatTimes(a, b) ==
    LET sign == IF (a < 0) = (b < 0) THEN 1 ELSE -1
    IN  IF a = NaN \/ b = NaN THEN NaN
        ELSE IF Abs(a) = Inf \/ Abs(b) = Inf
        THEN IF a = 0 \/ b = 0 THEN NaN ELSE sign * Inf
        ELSE IF a = 0 \/ b = 0 THEN 0
        ELSE IF Abs(a) = Huge /\ Abs(b) = Huge THEN sign * Inf
        ELSE IF Abs(a) = Huge \/ Abs(b) = Huge THEN sign * Huge
        ELSE a * b

\* pi * product^2 / (4 * delta_c^2) for a product and a delta_c that are numbers
DiffusionFormula(product, delta_c) ==
    LET q == (Abs(product) + 99) \div 100
        dc2 == (delta_c * delta_c) \div 1000
    IN  (((q * q + 999) \div 1000) * 3142 + 4 * dc2 - 1) \div (4 * dc2)

\* an estimate whose delta_c is the concentration ratio passed in
calculate_diffusion_coefficientWithRatio(slope, sample_thickness, surface_concentration_ratio) ==
    IF slope = 0 THEN Returned(0)
    ELSE IF surface_concentration_ratio = 0
    THEN Raised(<<"Diffusion coefficient calculation failed", "float division by zero">>, << >>)
    ELSE
      LET product == FloatTimes(slope, sample_thickness)
      IN  IF product = NaN THEN Returned(NaN)
          ELSE IF Abs(product) = Huge
          THEN Raised(<<"Diffusion coefficient calculation failed",
                        "Numerical result out of range">>, << >>)
          ELSE IF Abs(product) = Inf THEN Returned(Inf)
          ELSE Returned(DiffusionFormula(product, surface_concentration_ratio))

calculate_diffusion_coefficient(slope, sample_thickness, surface_concentration_ratio) ==
    IF slope = 0 THEN Returned(0)
    ELSE
      LET delta_c == 1000
          product == FloatTimes(slope, sample_thickness)
      IN  IF product = NaN THEN Returned(NaN)
          ELSE IF Abs(product) = Huge
          THEN Raised(<<"Diffusion coefficient calculation failed",
                        "Numerical result out of range">>, << >>)
          ELSE IF Abs(product) = Inf THEN Returned(Inf)
          ELSE Returned(DiffusionFormula(product, delta_c))

-----------------------------------------------------------------------------
(* DataFilteringUtils.filter_zeros on a frame of two columns, time and value
   (no Quality_Flags column), whose entries are numbers.  threshold_percent
   is in percent, detection_limit in the unit of the values.  The frame
   returned is the pair of the columns of the rows kept, in the input order. *)

\* the k-th smallest element of a non-empty sequence of numbers, 1 <= k <= Len(s)
KthSmallest(s, k) ==
    CHOOSE v \in {s[i] : i \in DOMAIN s} :
        /\ Cardinality({i \in DOMAIN s : s[i] < v}) < k
        /\ Cardinality({i \in DOMAIN s : s[i] <= v}) >= k

\* twice np.median(s) for a non-empty s; NaN for an empty one
TwiceMedian(s) ==
    LET n == Len(s)
    IN  IF n = 0 THEN NaN
        ELSE IF n % 2 = 1 THEN 2 * KthSmallest(s, (n + 1) \div 2)
        ELSE KthSmallest(s, n \div 2) + KthSmallest(s, (n \div 2) + 1)

\* v < median * num / den; false when the median is NaN
BelowMedianFraction(v, twice_median, num, den) ==
    twice_median # NaN /\ 2 * den * v < num * twice_median

\* rolling(window=5, min_periods=1).mean() at row i, as the pair <<sum, count>>
RollingWindow(value, i) ==
    LET from == IF i > 4 THEN i - 4 ELSE 1
    IN  <<SumSeq(SubSeq(value, from, i)), i - from + 1>>

filter_zeros(time, value, keep_origin, threshold_percent, detection_limit) ==
    IF Len(value) = 0 THEN Returned([time |-> time, value |-> value])
    ELSE
      LET rows == 1..Len(value)
          origin_mask == {i \in rows : time[i] = 0 /\ value[i] = 0}
          zero_mask == IF keep_origin THEN {i \in rows : value[i] = 0} \ origin_mask
                       ELSE {i \in rows : value[i] = 0}
          data_median == TwiceMedian(SelectSeq(value, LAMBDA v : v > 0))
          \* detection_limit > data_median * 0.1: the limit becomes 1% of the median
          auto_adjust == data_median # NaN /\ 20 * detection_limit > data_median
          below_limit == {i \in rows :
                            IF auto_adjust
                            THEN BelowMedianFraction(value[i], data_median, 1, 100)
                            ELSE value[i] < detection_limit}
          small_values == {i \in rows : BelowMedianFraction(value[i], data_median, 1, 10)}
          \* a small value that occurs 3 times or more is taken for noise
          noise_mask ==
              IF Len(value) > 10 /\ Cardinality(small_values) > 3
              THEN {i \in rows :
                      /\ BelowMedianFraction(value[i], data_median, 1, 20)
                      /\ Cardinality({j \in small_values : value[j] = value[i]}) >= 3}
              ELSE {}
          rolling_mask ==
              IF threshold_percent > 0
              THEN {i \in rows :
                      LET w == RollingWindow(value, i)
                      IN  value[i] * w[2] * 100 >= w[1] * threshold_percent \/ time[i] = 0}
              ELSE rows
          valid_mask == (((rows \ zero_mask) \ below_limit) \ noise_mask) \cap rolling_mask
          kept == IndexSeq(Len(value), valid_mask)
      IN  Returned([time |-> [k \in 1..Len(kept) |-> time[kept[k]]],
                    value |-> [k \in 1..Len(kept) |-> value[kept[k]]]])

-----------------------------------------------------------------------------
(* TemperatureCorrectionUtils.  Temperatures in 1e-2 degrees, activation
   energies in 1e-1 kJ/mol, diffusion coefficients in 1e-10 cm^2/s. *)

RECURSIVE ExpTaylor(_, _, _, _)
\* sum of the series of exp(e), e in 1e-3 with 0 <= e <= 1000, in 1e-3
ExpTaylor(e, k, term, acc) ==
    IF term = 0 THEN acc
    ELSE ExpTaylor(e, k + 1, (term * e) \div (1000 * k), acc + term)

RECURSIVE ExpMilli(_)
\* exp(e) in 1e-3, e in 1e-3
ExpMilli(e) ==
    IF e < 0 THEN 1000000 \div ExpMilli(-e)
    ELSE IF e > 1000
         THEN LET h == ExpMilli(e \div 2) IN (h * h) \div 1000
         ELSE ExpTaylor(e, 1, 1000, 0)

KelvinOffset == 27315

\* Q / R with R = 0.008314 kJ/(mol K), Q in 1e-1 kJ/mol: in K
QOverR(q) == (q * 12028) \div 1000

arrhenius_temperature_correction(D_measured, T_measured, T_target, activation_energy) ==
    LET T_meas_K == T_measured + KelvinOffset
        T_targ_K == T_target + KelvinOffset
    IN  IF T_meas_K = 0 \/ T_targ_K = 0
        THEN \* 1/T_meas_K - 1/T_targ_K on Python floats: ZeroDivisionError
             Raised(<<"Temperature correction failed", "float division by zero">>, << >>)
        ELSE
          LET \* 1/T in 1e-7 K^-1
              diff == (1000000000 \div T_meas_K) - (1000000000 \div T_targ_K)
              exponent == ScaledDiv(QOverR(activation_energy) * diff, 10000, 1)
          IN  Returned((D_measured * ExpMilli(exponent)) \div 1000)

BaseValues == [steel |-> 1000, iron |-> 100, austenitic_steel |-> 1000, ferritic_steel |-> 500]

ActivationEnergies == [steel |-> 75, iron |-> 80, austenitic_steel |-> 75, ferritic_steel |-> 100]

\* str.lower() on the material names the model uses
Lower(material) ==
    CASE material = "Steel" -> "steel"
      [] material = "IRON" -> "iron"
      [] OTHER -> material

ReferenceTemperature == 2500

\* a lookup that reports the material asked for, not the one looked up
get_literature_D_at_temperatureKeepName(material, temperature_C) ==
    LET lowered == Lower(material)
        material_key == IF lowered \in DOMAIN BaseValues THEN lowered ELSE "steel"
        base_D == BaseValues[material_key]
        Q == ActivationEnergies[material_key]
        corrected == arrhenius_temperature_correction(base_D, ReferenceTemperature,
                                                      temperature_C, Q)
    IN  IF corrected.ok
        THEN Returned([D_literature |-> corrected.value,
                       base_D_25C |-> base_D,
                       activation_energy |-> Q,
                       temperature |-> temperature_C,
                       material |-> lowered,
                       error |-> << >>])
        ELSE \* except Exception as e: return {...defaults..., "error": str(e)}
             Returned([D_literature |-> 1000,
                       base_D_25C |-> 1000,
                       activation_energy |-> 75,
                       temperature |-> temperature_C,
                       material |-> "steel",
                       error |-> corrected.error])

get_literature_D_at_temperature(material, temperature_C) ==
    LET lowered == Lower(material)
        material_key == IF lowered \in DOMAIN BaseValues THEN lowered ELSE "steel"
        base_D == BaseValues[material_key]
        Q == ActivationEnergies[material_key]
        corrected == arrhenius_temperature_correction(base_D, ReferenceTemperature,
                                                      temperature_C, Q)
    IN  IF corrected.ok
        THEN Returned([D_literature |-> corrected.value,
                       base_D_25C |-> base_D,
                       activation_energy |-> Q,
                       temperature |-> temperature_C,
                       material |-> material_key,
                       error |-> << >>])
        ELSE \* except Exception as e: return {...defaults..., "error": str(e)}
             Returned([D_literature |-> 1000,
                       base_D_25C |-> 1000,
                       activation_energy |-> 75,
                       temperature |-> temperature_C,
                       material |-> "steel",
                       error |-> corrected.error])

-----------------------------------------------------------------------------
(* DiffusionAnalysisEngine.analyze_diffusion_behavior.  tail_start is << >>
   for None and <<t>> for the manual value t. *)

DefaultMinTime == 60
DefaultPeakFraction == <<1, 10>>

AnalysisTypes == {"1_sqrt_t", "sqrt_t", "log_log"}

\* a dispatch that treats any other type as "1_sqrt_t"
PlotDataDefaulting(time, rate, cumul, analysis_type, tail_start) ==
    CASE analysis_type = "sqrt_t" -> calculate_sqrt_t_plot(time, cumul, tail_start)
      [] analysis_type = "log_log" -> calculate_log_log_plot(time, rate, tail_start)
      [] OTHER -> calculate_1_sqrt_t_plot(time, rate, tail_start)

\* the transform selected by analysis_type
PlotData(time, rate, cumul, analysis_type, tail_start) ==
    CASE analysis_type = "1_sqrt_t" -> calculate_1_sqrt_t_plot(time, rate, tail_start)
      [] analysis_type = "sqrt_t" -> calculate_sqrt_t_plot(time, cumul, tail_start)
      [] analysis_type = "log_log" -> calculate_log_log_plot(time, rate, tail_start)
      [] OTHER -> Raised(<<"Unknown analysis type">>, <<analysis_type>>)

\* a result that holds D whenever calculate_D is set, in any mode
BuildResultAnyMode(analysis_type, tail_start, sample_thickness, calculate_D, plot, reg) ==
    LET with_D == calculate_D
    IN  [tail_start_time |-> tail_start,
         analysis_type |-> analysis_type,
         slope |-> reg.slope,
         intercept |-> reg.intercept,
         r_squared |-> reg.r_squared,
         p_value |-> reg.p_value,
         num_points |-> reg.num_points,
         x_data |-> plot.x,
         y_data |-> plot.y,
         fit_x |-> reg.fit_x,
         fit_y |-> reg.fit_y,
         src |-> plot.src,
         goodness_of_fit |-> assess_fit_quality(reg.r_squared, reg.p_value, reg.num_points),
         diffusion_coefficient |->
             IF with_D
             THEN calculate_diffusion_coefficient(reg.slope, sample_thickness,
                                                  DefaultConcentrationRatio).value
             ELSE 0,
         thickness |-> IF with_D THEN sample_thickness ELSE 0]

\* a result that records the thickness in every case
BuildResultWithThickness(analysis_type, tail_start, sample_thickness, calculate_D, plot, reg) ==
    LET with_D == calculate_D /\ analysis_type = "1_sqrt_t"
    IN  [tail_start_time |-> tail_start,
         analysis_type |-> analysis_type,
         slope |-> reg.slope,
         intercept |-> reg.intercept,
         r_squared |-> reg.r_squared,
         p_value |-> reg.p_value,
         num_points |-> reg.num_points,
         x_data |-> plot.x,
         y_data |-> plot.y,
         fit_x |-> reg.fit_x,
         fit_y |-> reg.fit_y,
         src |-> plot.src,
         goodness_of_fit |-> assess_fit_quality(reg.r_squared, reg.p_value, reg.num_points),
         diffusion_coefficient |->
             IF with_D
             THEN calculate_diffusion_coefficient(reg.slope, sample_thickness,
                                                  DefaultConcentrationRatio).value
             ELSE 0,
         thickness |-> sample_thickness]

\* the DiffusionAnalysisResult built after a successful regression
BuildResult(analysis_type, tail_start, sample_thickness, calculate_D, plot, reg) ==
    LET with_D == calculate_D /\ analysis_type = "1_sqrt_t"
    IN  [tail_start_time |-> tail_start,
         analysis_type |-> analysis_type,
         slope |-> reg.slope,
         intercept |-> reg.intercept,
         r_squared |-> reg.r_squared,
         p_value |-> reg.p_value,
         num_points |-> reg.num_points,
         x_data |-> plot.x,
         y_data |-> plot.y,
         fit_x |-> reg.fit_x,
         fit_y |-> reg.fit_y,
         src |-> plot.src,
         goodness_of_fit |-> assess_fit_quality(reg.r_squared, reg.p_value, reg.num_points),
         diffusion_coefficient |->
             IF with_D
             THEN calculate_diffusion_coefficient(reg.slope, sample_thickness,
                                                  DefaultConcentrationRatio).value
             ELSE 0,
         thickness |-> IF with_D THEN sample_thickness ELSE 0]

\* the steps after the tail start is known
AnalyzeFrom(time, rate, cumul, analysis_type, tail_start, sample_thickness, calculate_D) ==
    LET validation == validate_tail_region(time, rate, tail_start)
    IN  IF ~validation.ok THEN Rewrap("Diffusion analysis failed", validation)
        ELSE IF ~validation.value.is_valid
        THEN Raised(<<"Diffusion analysis failed", "Invalid tail region">>,
                    validation.value.warnings)
        ELSE
          LET plot == PlotData(time, rate, cumul, analysis_type, tail_start)
          IN  IF ~plot.ok THEN Rewrap("Diffusion analysis failed", plot)
              ELSE
                LET reg == perform_linear_regression(plot.value.x, plot.value.y)
                IN  IF ~reg.ok THEN Rewrap("Diffusion analysis failed", reg)
                    ELSE
                      LET D == calculate_diffusion_coefficient(reg.value.slope, sample_thickness,
                                                               DefaultConcentrationRatio)
                      IN  IF calculate_D /\ analysis_type = "1_sqrt_t" /\ ~D.ok
                          THEN Rewrap("Diffusion analysis failed", D)
                          ELSE Returned(BuildResult(analysis_type, tail_start,
                                                    sample_thickness, calculate_D,
                                                    plot.value, reg.value))

analyze_diffusion_behavior(time, rate, cumul, analysis_type, tail_start, sample_thickness, calculate_D) ==
    IF tail_start = << >>
    THEN LET found == find_tail_start(time, rate, DefaultMinTime, DefaultPeakFraction)
         IN  IF ~found.ok THEN Rewrap("Diffusion analysis failed", found)
             ELSE AnalyzeFrom(time, rate, cumul, analysis_type, found.value,
                              sample_thickness, calculate_D)
    ELSE AnalyzeFrom(time, rate, cumul, analysis_type, tail_start[1],
                     sample_thickness, calculate_D)

-----------------------------------------------------------------------------
(* PlotGenerator.create_diffusion_plot, up to the call of the engine, for a
   mass-normalized dataset without quality flags and options with
   use_mol_units False: the series pass to the engine in ppm.  What the
   method draws is not modelled. *)

\* the three series the engine is handed: the rate and its times with the
\* noise filter applied to the tail when filter_noise is set
AnalysisData(time, rate, cumul, tail_start_time, filter_noise, detection_limit) ==
    LET unfiltered == [time_data |-> time, desorption_rate |-> rate,
                       cumulative_hydrogen |-> cumul]
    IN  IF ~filter_noise THEN Returned(unfiltered)
        ELSE
          LET tail == IndexSeq(Len(time), {i \in 1..Len(time) : time[i] >= tail_start_time})
              pre_tail == IndexSeq(Len(time), {i \in 1..Len(time) : time[i] < tail_start_time})
              tail_time == [k \in 1..Len(tail) |-> time[tail[k]]]
              tail_rate == [k \in 1..Len(tail) |-> rate[tail[k]]]
          IN  IF Len(tail) = 0
              THEN \* np.min(tail_rate) of the progress message
                   Raised(<<"zero-size array to reduction operation minimum which has no identity">>,
                          << >>)
              ELSE
                LET filtered == filter_zeros(tail_time, tail_rate, FALSE, 2, detection_limit)
                IN  IF ~filtered.ok THEN filtered
                    ELSE IF Len(filtered.value.time) > 0 /\ Len(filtered.value.time) < Len(tail)
                    THEN Returned([time_data |->
                                       [k \in 1..Len(pre_tail) |-> time[pre_tail[k]]]
                                           \o filtered.value.time,
                                   desorption_rate |->
                                       [k \in 1..Len(pre_tail) |-> rate[pre_tail[k]]]
                                           \o filtered.value.value,
                                   cumulative_hydrogen |-> cumul])
                    ELSE Returned(unfiltered)

\* the call of the engine on the prepared data, and the method's except clause
AnalyzePrepared(data, plot_type, tail_start_time, calculate_D, sample_thickness) ==
    IF ~data.ok THEN Rewrap("Diffusion plot generation failed", data)
    ELSE Reraised("Diffusion plot generation failed",
                  analyze_diffusion_behavior(data.value.time_data, data.value.desorption_rate,
                                             data.value.cumulative_hydrogen, plot_type,
                                             <<tail_start_time>>, sample_thickness, calculate_D))

create_diffusion_plot(time, rate, cumul, plot_type, tail_start_time, calculate_D, sample_thickness, filter_noise, detection_limit) ==
    AnalyzePrepared(AnalysisData(time, rate, cumul, tail_start_time, filter_noise, detection_limit),
                    plot_type, tail_start_time, calculate_D, sample_thickness)

-----------------------------------------------------------------------------
(* The time series the operations are applied to.

   A series of n entries lies on a grid: entry i is at start + 30 (i - 1)
   minutes.  Its rate is a peak (2.0) on the first `peak` entries and at time
   0, and after that either the diffusion decay 10/sqrt(60 t) or, for a series
   whose signal is below the noise floor, Tiny.  Its cumulative value grows by
   0.1 per entry.  At most one thing is then made irregular: one value of one
   entry, or the length of one of the three sequences. *)

MaxLen == 11

StartTimes == {0, 90}

Irregular ==
    {"none", "rate_negative", "rate_zero", "rate_nan", "rate_inf", "rate_tiny", "rate_one",
     "time_nan", "time_inf", "time_repeat", "time_back", "cumul_zero", "cumul_nan",
     "rate_short", "cumul_long"}

\* 10 / sqrt(60 t) in 1e-3, t > 0
DecayRate(t) == 1000000 \div ISqrt(t * 60 * 10000)

\* the sampling grid: one entry every 30 minutes
GridTime(start, i) == start + 30 * (i - 1)

RegularRate(start, peak, tiny, i) ==
    IF i <= peak \/ GridTime(start, i) = 0 THEN 2000
    ELSE IF tiny THEN Tiny
    ELSE DecayRate(GridTime(start, i))

SeriesTime(n, start, odd, pos) ==
    [i \in 1..n |->
        IF i # pos THEN GridTime(start, i)
        ELSE CASE odd = "time_nan" -> NaN
               [] odd = "time_inf" -> Inf
               [] odd = "time_repeat" -> GridTime(start, IF i > 1 THEN i - 1 ELSE i)
               [] odd = "time_back" -> GridTime(start, i) + 60
               [] OTHER -> GridTime(start, i)]

SeriesRate(n, start, peak, tiny, odd, pos) ==
    [i \in 1..(IF odd = "rate_short" THEN n - 1 ELSE n) |->
        IF i # pos THEN RegularRate(start, peak, tiny, i)
        ELSE CASE odd = "rate_negative" -> -5
               [] odd = "rate_zero" -> 0
               [] odd = "rate_nan" -> NaN
               [] odd = "rate_inf" -> Inf
               [] odd = "rate_tiny" -> IF tiny THEN DecayRate(GridTime(start, i) + 30) ELSE Tiny
               [] odd = "rate_one" -> 1000
               [] OTHER -> RegularRate(start, peak, tiny, i)]

SeriesCumul(n, odd, pos) ==
    [i \in 1..(IF odd = "cumul_long" THEN n + 1 ELSE n) |->
        IF i # pos THEN 100 * i
        ELSE CASE odd = "cumul_zero" -> 0
               [] odd = "cumul_nan" -> NaN
               [] OTHER -> 100 * i]

NoCall == [op |-> "none"]

\* DiffusionAnalysisEngine.__init__: six components, none of which has attributes
NewEngine ==
    [tail_analyzer |-> "TailRegionAnalyzer", plot_calculator |-> "DiffusionPlotCalculator",
     regression_analyzer |-> "LinearRegressionAnalyzer",
     diffusion_calculator |-> "DiffusionCoefficientCalculator",
     filter_utils |-> "DataFilteringUtils", temp_utils |-> "TemperatureCorrectionUtils"]

\* the objects that outlive a call
objects == <<engine, history, calibrations>>

\* a new engine, and a CalibrationManager whose database file does not exist
FreshObjects ==
    /\ engine = NewEngine
    /\ history = << >>
    /\ calibrations = << >>

NoReturn == [ok |-> FALSE, value |-> << >>, error |-> << >>, data |-> << >>]

Init ==
    \E n \in 0..MaxLen, start \in StartTimes, peak \in 0..1, tiny \in BOOLEAN,
       odd \in Irregular, pos \in 1..MaxLen :
        /\ pos <= n \/ (pos = 1 /\ odd = "none")
        /\ odd \in {"rate_short", "cumul_long"} => pos = n
        /\ time_minutes = SeriesTime(n, start, odd, pos)
        /\ desorption_rate = SeriesRate(n, start, peak, tiny, odd, pos)
        /\ cumulative_hydrogen = SeriesCumul(n, odd, pos)
        /\ pc = "ready"
        /\ call = NoCall
        /\ ret = NoReturn
        /\ FreshObjects

-----------------------------------------------------------------------------
(* The operations *)

ManualTailStarts == {0, 60, 150}
TailStartArgs == {<< >>} \cup {<<t>> : t \in ManualTailStarts}
AnalysisTypeArgs == AnalysisTypes \cup {"semi_log"}
ThicknessArgs == {100}

Analyze(analysis_type, tail_start, sample_thickness, calculate_D) ==
    /\ pc = "ready"
    /\ pc' = "done"
    /\ call' = [op |-> "analyze",
                analysis_type |-> analysis_type,
                tail_start |-> tail_start,
                sample_thickness |-> sample_thickness,
                calculate_D |-> calculate_D]
    /\ ret' = analyze_diffusion_behavior(time_minutes, desorption_rate, cumulative_hydrogen,
                                         analysis_type, tail_start, sample_thickness,
                                         calculate_D)
    /\ UNCHANGED <<time_minutes, desorption_rate, cumulative_hydrogen, objects>>

Next ==
    \E analysis_type \in AnalysisTypeArgs, tail_start \in TailStartArgs,
       sample_thickness \in ThicknessArgs, calculate_D \in BOOLEAN :
        Analyze(analysis_type, tail_start, sample_thickness, calculate_D)

Spec == Init /\ [][Next]_vars

-----------------------------------------------------------------------------
(* find_tail_start called on its own (the tail-start auto-detection of the
   diffusion widget), with min_time and peak_fraction given *)

MinTimeArgs == {60, 120}
PeakFractionArgs == {<<1, 10>>, <<1, 2>>}

FindTailStart(min_time, peak_fraction) ==
    /\ pc = "ready"
    /\ pc' = "done"
    /\ call' = [op |-> "find_tail_start", min_time |-> min_time,
                peak_fraction |-> peak_fraction]
    /\ ret' = find_tail_start(time_minutes, desorption_rate, min_time, peak_fraction)
    /\ UNCHANGED <<time_minutes, desorption_rate, cumulative_hydrogen, objects>>

NextTail ==
    \E min_time \in MinTimeArgs, peak_fraction \in PeakFractionArgs :
        FindTailStart(min_time, peak_fraction)

\* a series whose last `dead` rates are 0 (no signal left)
DeadTail(rate, dead) ==
    [i \in 1..Len(rate) |-> IF i > Len(rate) - dead THEN 0 ELSE rate[i]]

\* the series of Init, and the regular ones among them with a dead tail
InitTail ==
    \E n \in 0..MaxLen, start \in StartTimes, peak \in 0..1, tiny \in BOOLEAN,
       odd \in Irregular, pos \in 1..MaxLen, dead \in 0..MaxLen :
        /\ pos <= n \/ (pos = 1 /\ odd = "none")
        /\ odd \in {"rate_short", "cumul_long"} => pos = n
        /\ dead > 0 => (odd = "none" /\ pos = 1 /\ dead <= n)
        /\ time_minutes = SeriesTime(n, start, odd, pos)
        /\ desorption_rate = DeadTail(SeriesRate(n, start, peak, tiny, odd, pos), dead)
        /\ cumulative_hydrogen = SeriesCumul(n, odd, pos)
        /\ pc = "ready"
        /\ call = NoCall
        /\ ret = NoReturn
        /\ FreshObjects

SpecTail == InitTail /\ [][NextTail]_vars

-----------------------------------------------------------------------------
(* The temperature utilities called on their own; no time series is involved *)

MaterialArgs == {"steel", "iron", "austenitic_steel", "ferritic_steel", "Steel", "IRON",
                 "copper", "aluminium"}
TemperatureArgs == {-27315, -5000, 0, 2500, 10000, 30000, 50000}
DArgs == {100, 1000}
ActivationEnergyArgs == {75, 100}

InitLit ==
    /\ time_minutes = << >>
    /\ desorption_rate = << >>
    /\ cumulative_hydrogen = << >>
    /\ pc = "ready"
    /\ call = NoCall
    /\ ret = NoReturn
    /\ FreshObjects

GetLiteratureD(material, temperature_C) ==
    /\ pc = "ready"
    /\ pc' = "done"
    /\ call' = [op |-> "get_literature_D_at_temperature", material |-> material,
                temperature_C |-> temperature_C]
    /\ ret' = get_literature_D_at_temperature(material, temperature_C)
    /\ UNCHANGED <<time_minutes, desorption_rate, cumulative_hydrogen, objects>>

ArrheniusCorrection(D_measured, T_measured, T_target, activation_energy) ==
    /\ pc = "ready"
    /\ pc' = "done"
    /\ call' = [op |-> "arrhenius_temperature_correction", D_measured |-> D_measured,
                T_measured |-> T_measured, T_target |-> T_target,
                activation_energy |-> activation_energy]
    /\ ret' = arrhenius_temperature_correction(D_measured, T_measured, T_target,
                                               activation_energy)
    /\ UNCHANGED <<time_minutes, desorption_rate, cumulative_hydrogen, objects>>

NextLit ==
    \/ \E material \in MaterialArgs, temperature_C \in TemperatureArgs :
          GetLiteratureD(material, temperature_C)
    \/ \E D_measured \in DArgs, T_measured \in TemperatureArgs,
          T_target \in TemperatureArgs, activation_energy \in ActivationEnergyArgs :
          ArrheniusCorrection(D_measured, T_measured, T_target, activation_energy)

SpecLit == InitLit /\ [][NextLit]_vars

-----------------------------------------------------------------------------
(* The components of the pipeline called on their own, and the pipeline, on
   the series of Init *)

ValidateTailRegion(tail_start) ==
    /\ pc = "ready"
    /\ pc' = "done"
    /\ call' = [op |-> "validate_tail_region", tail_start |-> tail_start]
    /\ ret' = validate_tail_region(time_minutes, desorption_rate, tail_start)
    /\ UNCHANGED <<time_minutes, desorption_rate, cumulative_hydrogen, objects>>

Transform(analysis_type, tail_start) ==
    /\ pc = "ready"
    /\ pc' = "done"
    /\ call' = [op |-> "transform", analysis_type |-> analysis_type,
                tail_start |-> tail_start]
    /\ ret' = CASE analysis_type = "1_sqrt_t" ->
                     calculate_1_sqrt_t_plot(time_minutes, desorption_rate, tail_start)
               [] analysis_type = "sqrt_t" ->
                     calculate_sqrt_t_plot(time_minutes, cumulative_hydrogen, tail_start)
               [] analysis_type = "log_log" ->
                     calculate_log_log_plot(time_minutes, desorption_rate, tail_start)
    /\ UNCHANGED <<time_minutes, desorption_rate, cumulative_hydrogen, objects>>

\* perform_linear_regression with x = the times and y = the rates
Regress ==
    /\ pc = "ready"
    /\ pc' = "done"
    /\ call' = [op |-> "perform_linear_regression"]
    /\ ret' = perform_linear_regression(time_minutes, desorption_rate)
    /\ UNCHANGED <<time_minutes, desorption_rate, cumulative_hydrogen, objects>>

NextParts ==
    \/ Regress
    \/ \E analysis_type \in AnalysisTypes, tail_start \in TailStartArgs,
          sample_thickness \in ThicknessArgs :
          Analyze(analysis_type, tail_start, sample_thickness, TRUE)
    \/ \E tail_start \in ManualTailStarts : ValidateTailRegion(tail_start)
    \/ \E analysis_type \in AnalysisTypes, tail_start \in ManualTailStarts :
          Transform(analysis_type, tail_start)

SpecParts == Init /\ [][NextParts]_vars

-----------------------------------------------------------------------------
(* assess_fit_quality called on its own: r_squared in 1e-4, p_value in 1e-3,
   at and around every threshold of the rules *)

RSquaredArgs == {0, 5000, 7999, 8000, 8999, 9000, 9499, 9500, 10000}
PValueArgs == {0, 9, 10, 49, 50, 99, 100, 1000}
NumPointsArgs == {3, 4, 5, 7, 8, 9, 10, 11}

AssessFitQuality(r_squared, p_value, num_points) ==
    /\ pc = "ready"
    /\ pc' = "done"
    /\ call' = [op |-> "assess_fit_quality", r_squared |-> r_squared,
                p_value |-> p_value, num_points |-> num_points]
    /\ ret' = Returned(assess_fit_quality(r_squared, p_value, num_points))
    /\ UNCHANGED <<time_minutes, desorption_rate, cumulative_hydrogen, objects>>

NextGrade ==
    \E r_squared \in RSquaredArgs, p_value \in PValueArgs, num_points \in NumPointsArgs :
        AssessFitQuality(r_squared, p_value, num_points)

SpecGrade == InitLit /\ [][NextGrade]_vars

-----------------------------------------------------------------------------
(* calculate_diffusion_coefficient called on its own: slopes of either sign,
   thicknesses, and concentration ratios, the non-numbers among them *)

SlopeArgs == {0, 1, -1, 1000, -1000, 9966, -9966, NaN, Inf, -Inf, Huge, -Huge}
SampleThicknessArgs == {0, 50, 100, -100, NaN, Inf}
ConcentrationRatioArgs == {0, 500, 1000, 2000}

CalculateD(slope, sample_thickness, surface_concentration_ratio) ==
    /\ pc = "ready"
    /\ pc' = "done"
    /\ call' = [op |-> "calculate_diffusion_coefficient", slope |-> slope,
                sample_thickness |-> sample_thickness,
                surface_concentration_ratio |-> surface_concentration_ratio]
    /\ ret' = calculate_diffusion_coefficient(slope, sample_thickness,
                                              surface_concentration_ratio)
    /\ UNCHANGED <<time_minutes, desorption_rate, cumulative_hydrogen, objects>>

NextD ==
    \E slope \in SlopeArgs, sample_thickness \in SampleThicknessArgs,
       surface_concentration_ratio \in ConcentrationRatioArgs :
        CalculateD(slope, sample_thickness, surface_concentration_ratio)

SpecD == InitLit /\ [][NextD]_vars

-----------------------------------------------------------------------------
(* A run of analyze calls on one engine.  Each call brings its own series and
   arguments; `history` records what every call was given and gave back. *)

MaxCalls == 3

\* an engine that remembers the tail start of its last successful analysis,
\* and uses it when the next call asks for auto-detection
AnalyzeOnEngineRemembering(eng, time, rate, cumul, analysis_type, tail_start, sample_thickness, calculate_D) ==
    LET remembered == IF "last_tail_start" \in DOMAIN eng THEN eng.last_tail_start ELSE << >>
        result == analyze_diffusion_behavior(time, rate, cumul, analysis_type,
                                             IF tail_start = << >> THEN remembered
                                             ELSE tail_start,
                                             sample_thickness, calculate_D)
    IN  [engine |-> IF result.ok
                    THEN [k \in DOMAIN eng \cup {"last_tail_start"} |->
                             IF k = "last_tail_start" THEN <<result.value.tail_start_time>>
                             ELSE eng[k]]
                    ELSE eng,
         result |-> result]

\* analyze_diffusion_behavior as a method of the engine: the engine after the
\* call, and what the call gives back.  The method reads self only to reach
\* the components, assigns no attribute, builds a new DiffusionAnalysisResult
\* for every call, and copies its arguments (np.array) before using them.
AnalyzeOnEngine(eng, time, rate, cumul, analysis_type, tail_start, sample_thickness, calculate_D) ==
    [engine |-> eng,
     result |-> analyze_diffusion_behavior(time, rate, cumul, analysis_type, tail_start,
                                           sample_thickness, calculate_D)]

HistoryTailStarts == {<< >>, <<0>>, <<150>>}
HistoryTypes == {"1_sqrt_t", "sqrt_t"}

InitHistory ==
    /\ time_minutes = << >>
    /\ desorption_rate = << >>
    /\ cumulative_hydrogen = << >>
    /\ pc = "ready"
    /\ call = NoCall
    /\ ret = NoReturn
    /\ FreshObjects

\* one more call on the engine, on the regular series of MaxLen entries that starts at `start`
AnalyzeAgain(start, analysis_type, tail_start, sample_thickness, calculate_D) ==
    \E time \in {SeriesTime(MaxLen, start, "none", 1)},
       rate \in {SeriesRate(MaxLen, start, 1, FALSE, "none", 1)},
       cumul \in {SeriesCumul(MaxLen, "none", 1)} :
      \E step \in {AnalyzeOnEngine(engine, time, rate, cumul, analysis_type, tail_start,
                                   sample_thickness, calculate_D)},
         made \in {[op |-> "analyze",
                    analysis_type |-> analysis_type,
                    tail_start |-> tail_start,
                    sample_thickness |-> sample_thickness,
                    calculate_D |-> calculate_D]} :
        /\ Len(history) < MaxCalls
        /\ pc' = "done"
        /\ time_minutes' = time
        /\ desorption_rate' = rate
        /\ cumulative_hydrogen' = cumul
        /\ call' = made
        /\ ret' = step.result
        /\ engine' = step.engine
        /\ history' = Append(history, [time_minutes |-> time, desorption_rate |-> rate,
                                       cumulative_hydrogen |-> cumul, call |-> made,
                                       ret |-> step.result])
        /\ UNCHANGED calibrations

NextHistory ==
    \E start \in StartTimes, analysis_type \in HistoryTypes, tail_start \in HistoryTailStarts,
       sample_thickness \in ThicknessArgs :
        AnalyzeAgain(start, analysis_type, tail_start, sample_thickness, TRUE)

SpecHistory == InitHistory /\ [][NextHistory]_vars

-----------------------------------------------------------------------------
(* The frames filter_zeros and create_diffusion_plot are applied to: the
   series of Init whose three columns have one length and hold numbers *)

InitFrame ==
    /\ Init
    /\ Len(desorption_rate) = Len(time_minutes)
    /\ Len(cumulative_hydrogen) = Len(time_minutes)
    /\ \A i \in 1..Len(time_minutes) :
          IsNum(time_minutes[i]) /\ IsNum(desorption_rate[i]) /\ IsNum(cumulative_hydrogen[i])

ThresholdPercentArgs == {0, 2}
DetectionLimitArgs == {0, 1, 100}

\* filter_zeros on the frame of the columns time_minutes and desorption_rate
FilterZeros(keep_origin, threshold_percent, detection_limit) ==
    /\ pc = "ready"
    /\ pc' = "done"
    /\ call' = [op |-> "filter_zeros", keep_origin |-> keep_origin,
                threshold_percent |-> threshold_percent,
                detection_limit |-> detection_limit]
    /\ ret' = filter_zeros(time_minutes, desorption_rate, keep_origin, threshold_percent,
                           detection_limit)
    /\ UNCHANGED <<time_minutes, desorption_rate, cumulative_hydrogen, objects>>

NextFilter ==
    \E keep_origin \in BOOLEAN, threshold_percent \in ThresholdPercentArgs,
       detection_limit \in DetectionLimitArgs :
        FilterZeros(keep_origin, threshold_percent, detection_limit)

SpecFilter == InitFrame /\ [][NextFilter]_vars

PlotTailStarts == {0, 60, 600}

\* create_diffusion_plot on the dataset of the three columns; `handed` is
\* what the engine was handed, when the method got that far
CreateDiffusionPlot(plot_type, tail_start_time, sample_thickness, filter_noise, detection_limit) ==
    /\ pc = "ready"
    /\ pc' = "done"
    /\ call' = [op |-> "create_diffusion_plot", plot_type |-> plot_type,
                tail_start_time |-> tail_start_time, filter_noise |-> filter_noise,
                detection_limit |-> detection_limit,
                handed |-> AnalysisData(time_minutes, desorption_rate, cumulative_hydrogen,
                                        tail_start_time, filter_noise, detection_limit)]
    /\ ret' = create_diffusion_plot(time_minutes, desorption_rate, cumulative_hydrogen,
                                    plot_type, tail_start_time, TRUE, sample_thickness,
                                    filter_noise, detection_limit)
    /\ UNCHANGED <<time_minutes, desorption_rate, cumulative_hydrogen, objects>>

NextPlot ==
    \E plot_type \in HistoryTypes, tail_start_time \in PlotTailStarts,
       sample_thickness \in ThicknessArgs, filter_noise \in BOOLEAN :
        CreateDiffusionPlot(plot_type, tail_start_time, sample_thickness, filter_noise, 100)

SpecPlot == InitFrame /\ [][NextPlot]_vars

-----------------------------------------------------------------------------
(* CalibrationManager on one day.  `calibrations` is the database: a function
   from calibration IDs to the source folder of the calibration.  The ID n
   stands for the string "cal_<today>_<n as three digits>", so every key
   starts with today's prefix. *)

MaxCalibrations == 3

\* folders with calibration files, and one path that does not exist
CalibrationFolders == {"run_a", "run_b", "run_c"}
FolderArgs == CalibrationFolders \cup {"missing"}

\* the database with the entry of one ID removed
Without(db, calibration_id) == [k \in DOMAIN db \ {calibration_id} |-> db[k]]

\* the database with cal_data stored under cal_id
Stored(db, cal_id, cal_data) ==
    [k \in DOMAIN db \cup {cal_id} |-> IF k = cal_id THEN cal_data ELSE db[k]]

\* the ID generated when no cal_name is given
auto_cal_id(db) ==
    LET existing_count == Cardinality(DOMAIN db)
    IN  existing_count + 1

process_calibration_folder(db, folder_path) ==
    IF folder_path \notin CalibrationFolders
    THEN [calibrations |-> db,
          result |-> Raised(<<"Folder does not exist: " \o folder_path>>, << >>)]
    ELSE LET cal_id == auto_cal_id(db)
         IN  [calibrations |-> Stored(db, cal_id, folder_path),
              result |-> Returned([calibration_id |-> cal_id, source_folder |-> folder_path])]

delete_calibration(db, calibration_id) ==
    IF calibration_id \notin DOMAIN db
    THEN [calibrations |-> db, result |-> Returned(FALSE)]
    ELSE [calibrations |-> Without(db, calibration_id), result |-> Returned(TRUE)]

ProcessCalibrationFolder(folder_path) ==
    /\ Cardinality(DOMAIN calibrations) < MaxCalibrations
    /\ pc' = "done"
    /\ call' = [op |-> "process_calibration_folder", folder_path |-> folder_path]
    /\ calibrations' = process_calibration_folder(calibrations, folder_path).calibrations
    /\ ret' = process_calibration_folder(calibrations, folder_path).result
    /\ UNCHANGED <<time_minutes, desorption_rate, cumulative_hydrogen, engine, history>>

DeleteCalibration(calibration_id) ==
    /\ pc' = "done"
    /\ call' = [op |-> "delete_calibration", calibration_id |-> calibration_id]
    /\ calibrations' = delete_calibration(calibrations, calibration_id).calibrations
    /\ ret' = delete_calibration(calibrations, calibration_id).result
    /\ UNCHANGED <<time_minutes, desorption_rate, cumulative_hydrogen, engine, history>>

NextCalibration ==
    \/ \E folder_path \in FolderArgs : ProcessCalibrationFolder(folder_path)
    \/ \E calibration_id \in 1..MaxCalibrations : DeleteCalibration(calibration_id)

SpecCalibration == InitLit /\ [][NextCalibration]_vars

-----------------------------------------------------------------------------
(* Vocabulary of the properties below, in terms of the caller's inputs and
   of what the call gave back *)

CalledAnalyze == pc = "done" /\ call.op = "analyze"

EqualLengths == Len(time_minutes) = Len(desorption_rate)

\* the tail start analyze works with: the one given, else the detected one
TailStartUsed ==
    IF call.tail_start # << >> THEN Returned(call.tail_start[1])
    ELSE find_tail_start(time_minutes, desorption_rate, DefaultMinTime, DefaultPeakFraction)

\* entries at or after ts
TailEntries(ts) == {i \in 1..Len(time_minutes) : Ge(time_minutes[i], ts)}

\* entries at or after ts whose rate is positive and finite
TailEntriesPositiveFinite(ts) ==
    {i \in TailEntries(ts) : Gt(desorption_rate[i], 0) /\ IsFinite(desorption_rate[i])}

\* ... and whose time is finite as well
TailEntriesUsable(ts) == {i \in TailEntriesPositiveFinite(ts) : IsFinite(time_minutes[i])}

InvalidTailRegionError == <<"Diffusion analysis failed", "Invalid tail region">>

InsufficientPointsWarning ==
    "Insufficient data points for reliable analysis (minimum 10 recommended)"

Last(s) == s[Len(s)]

Range(s) == {s[k] : k \in DOMAIN s}

-----------------------------------------------------------------------------
\* C1: analyze on a series with fewer than 10 entries that have time >=
\* tail_start and a positive finite rate fails with the invalid-tail-region
\* error, which carries the validation warnings, and yields no result.
C1_ShortTailIsInvalid ==
    (/\ CalledAnalyze
     /\ EqualLengths
     /\ TailStartUsed.ok
     /\ Cardinality(TailEntriesPositiveFinite(TailStartUsed.value)) < 10)
    => /\ ~ret.ok
       /\ ret.value = << >>
       /\ ret.error = InvalidTailRegionError
       /\ InsufficientPointsWarning \in Range(ret.data)
       /\ ret.data = validate_tail_region(time_minutes, desorption_rate,
                                          TailStartUsed.value).value.warnings

\* an auto-detected tail of 3 to 9 usable entries, rejected
C1_Witness ==
    /\ CalledAnalyze
    /\ EqualLengths
    /\ call.tail_start = << >>
    /\ TailStartUsed.ok
    /\ Cardinality(TailEntriesPositiveFinite(TailStartUsed.value)) \in 3..9
    /\ ret.error = InvalidTailRegionError
    /\ InsufficientPointsWarning \in Range(ret.data)

-----------------------------------------------------------------------------
(* Scenario A: time = 0, 30, ..., 300 and rate = 10 / sqrt(60 t) for t > 0,
   any non-zero rate at t = 0; mode 1_sqrt_t *)

ScenarioATime == [i \in 1..11 |-> 30 * (i - 1)]

ScenarioA ==
    /\ time_minutes = ScenarioATime
    /\ Len(desorption_rate) = 11
    /\ desorption_rate[1] # 0
    /\ \A i \in 2..11 : desorption_rate[i] = DecayRate(time_minutes[i])

ScenarioACall(tail_start) ==
    /\ CalledAnalyze
    /\ ScenarioA
    /\ call.analysis_type = "1_sqrt_t"
    /\ call.tail_start = <<tail_start>>

\* slope 10 within 1 %: the slope of the 1/sqrt(t) plot is in 1e-2
SlopeIsTen == ret.value.slope >= 990 /\ ret.value.slope <= 1010

\* C2 as stated: Scenario A with tail_start = 60 completes with slope 10
\* within 1 % and the grade Excellent.
C2_ScenarioACompletes ==
    ScenarioACall(60) => ret.ok /\ SlopeIsTen /\ ret.value.goodness_of_fit = "Excellent"

\* C2 amended: Scenario A with tail_start = 60 has only 9 entries at or after
\* 60 minutes and fails with the invalid-tail-region error; with tail_start =
\* 0 it completes on 10 points with slope 10 within 1 % and the grade
\* Excellent.
C2_ScenarioAFailsAt60 ==
    /\ ScenarioACall(60) =>
          /\ ~ret.ok
          /\ ret.error = InvalidTailRegionError
          /\ Cardinality(TailEntries(60)) = 9
    /\ ScenarioACall(0) =>
          /\ ret.ok
          /\ ret.value.num_points = 10
          /\ SlopeIsTen
          /\ ret.value.goodness_of_fit = "Excellent"

C2_Witness ==
    /\ ScenarioACall(60)
    /\ desorption_rate[1] = 2000
    /\ ret.error = InvalidTailRegionError

-----------------------------------------------------------------------------
(* Scenario C: every rate in the tail is at or below the noise threshold *)

AllTailAtOrBelowNoise(ts) ==
    /\ TailEntries(ts) # {}
    /\ \A i \in TailEntries(ts) : Le(desorption_rate[i], Tiny)

ScenarioCCall ==
    /\ CalledAnalyze
    /\ EqualLengths
    /\ call.analysis_type \in AnalysisTypes
    /\ TailStartUsed.ok
    /\ AllTailAtOrBelowNoise(TailStartUsed.value)

InsufficientDataAboveNoise == "Insufficient data above noise threshold"

\* C3 as stated: when every tail rate is at most the noise threshold, analyze
\* fails with the insufficient-data-above-noise error in every mode, whether
\* the rates are zero, negative or tiny positive.
C3_NoiseTailAlwaysNoiseError ==
    ScenarioCCall => ~ret.ok /\ Last(ret.error) = InsufficientDataAboveNoise

\* C3 amended: when every tail rate is at most the noise threshold, analyze
\* fails with the invalid-tail-region error, in every mode, if fewer than 10
\* tail entries have a positive rate and a finite time (zero and negative
\* rates never count); it fails with the insufficient-data-above-noise error
\* in mode 1_sqrt_t if at least 10 do and at least 3 of them have time > 0.
C3_NoiseTailError ==
    ScenarioCCall =>
        LET usable == TailEntriesUsable(TailStartUsed.value)
        IN  /\ Cardinality(usable) < 10 => ~ret.ok /\ ret.error = InvalidTailRegionError
            /\ (/\ Cardinality(usable) >= 10
                /\ call.analysis_type = "1_sqrt_t"
                /\ Cardinality({i \in usable : Gt(time_minutes[i], 0)}) >= 3)
               => /\ ~ret.ok
                  /\ ret.error = <<"Diffusion analysis failed", "Linear regression failed",
                                   InsufficientDataAboveNoise>>

C3_Witness ==
    /\ ScenarioCCall
    /\ call.analysis_type = "1_sqrt_t"
    /\ Cardinality(TailEntriesUsable(TailStartUsed.value)) >= 10
    /\ ~ret.ok
    /\ Last(ret.error) = InsufficientDataAboveNoise

-----------------------------------------------------------------------------
(* Scenario D: mode log_log, a negative rate in the tail *)

NegativeTailEntries(ts) == {i \in TailEntries(ts) : Lt(desorption_rate[i], 0)}

ScenarioDCall ==
    /\ CalledAnalyze
    /\ EqualLengths
    /\ call.analysis_type = "log_log"
    /\ TailStartUsed.ok
    /\ NegativeTailEntries(TailStartUsed.value) # {}

\* the call succeeded and no returned point comes from a negative-rate entry
DroppedWithoutError ==
    /\ ret.ok
    /\ \A k \in 1..Len(ret.value.src) : Gt(desorption_rate[ret.value.src[k]], 0)

\* C4 as stated: in mode log_log a tail entry with a negative rate is dropped
\* and causes no error, provided at least 3 positive-rate tail entries remain.
C4_NegativeDroppedWith3 ==
    (/\ ScenarioDCall
     /\ Cardinality(TailEntriesPositiveFinite(TailStartUsed.value)) >= 3)
    => DroppedWithoutError

\* the tail entries the log-log fit can use: positive finite rate other than
\* 1.0 (whose logarithm is 0, not above the noise threshold), finite time > 0
LogLogFitEntries(ts) ==
    {i \in TailEntriesUsable(ts) : Gt(time_minutes[i], 0) /\ desorption_rate[i] # 1000}

\* C4 amended: in mode log_log a tail entry with a negative rate is dropped
\* and causes no error, provided at least 10 tail entries with a positive
\* finite rate and a finite time remain, and at least 3 of them, not all at
\* the same time, have time > 0 and a rate other than 1.0.  (3 remaining
\* entries with time > 0 are enough for the log-log transform on its own.)
C4_NegativeDroppedWith10 ==
    ScenarioDCall =>
        LET ts == TailStartUsed.value
            fit == LogLogFitEntries(ts)
            plot == calculate_log_log_plot(time_minutes, desorption_rate, ts)
        IN  /\ (/\ Cardinality(TailEntriesUsable(ts)) >= 10
                /\ Cardinality(fit) >= 3
                /\ Cardinality({time_minutes[i] : i \in fit}) >= 2)
               => DroppedWithoutError
            /\ Cardinality({i \in TailEntriesUsable(ts) : Gt(time_minutes[i], 0)}) >= 3
               => /\ plot.ok
                  /\ \A k \in 1..Len(plot.value.src) :
                        Gt(desorption_rate[plot.value.src[k]], 0)

C4_Witness ==
    /\ ScenarioDCall
    /\ Cardinality(TailEntriesUsable(TailStartUsed.value)) >= 10
    /\ DroppedWithoutError
    /\ ret.value.num_points >= 10

-----------------------------------------------------------------------------
\* C5: the x_data and y_data of a result are exactly the points the
\* regression used: both have num_points elements and no returned y is at or
\* below the noise threshold in absolute value.
C5_DataAreRegressionPoints ==
    (CalledAnalyze /\ ret.ok)
    => /\ Len(ret.value.x_data) = ret.value.num_points
       /\ Len(ret.value.y_data) = ret.value.num_points
       /\ \A k \in 1..Len(ret.value.y_data) : AboveNoise(ret.value.y_data[k])

-----------------------------------------------------------------------------
\* the transformed coordinates of entry i in the given mode
TransformedX(analysis_type, i) ==
    CASE analysis_type = "1_sqrt_t" -> InvSqrtSeconds(time_minutes[i])
      [] analysis_type = "sqrt_t" -> SqrtSeconds(time_minutes[i])
      [] analysis_type = "log_log" -> Log10Centi(time_minutes[i])

TransformedY(analysis_type, i) ==
    CASE analysis_type = "1_sqrt_t" -> desorption_rate[i]
      [] analysis_type = "sqrt_t" -> cumulative_hydrogen[i]
      [] analysis_type = "log_log" -> LogOfRate(desorption_rate[i])

\* C6: every point of a result's x_data / y_data derives from an input entry
\* whose time is at or after the result's tail_start_time.
C6_TailMonotonicity ==
    (CalledAnalyze /\ ret.ok)
    => /\ ret.value.tail_start_time = TailStartUsed.value
       /\ Len(ret.value.x_data) = Len(ret.value.src)
       /\ Len(ret.value.y_data) = Len(ret.value.src)
       /\ \A k \in 1..Len(ret.value.src) :
            LET i == ret.value.src[k]
            IN  /\ i \in 1..Len(time_minutes)
                /\ Ge(time_minutes[i], ret.value.tail_start_time)
                /\ ret.value.x_data[k] = TransformedX(call.analysis_type, i)
                /\ ret.value.y_data[k] = TransformedY(call.analysis_type, i)

\* a result whose tail leaves out some entry with a positive time
C6_Witness ==
    /\ CalledAnalyze
    /\ ret.ok
    /\ \E i \in 1..Len(time_minutes) :
          Gt(time_minutes[i], 0) /\ Lt(time_minutes[i], ret.value.tail_start_time)
    /\ \A k \in 1..Len(ret.value.src) :
          Ge(time_minutes[ret.value.src[k]], ret.value.tail_start_time)

-----------------------------------------------------------------------------
UnknownModeCall == CalledAnalyze /\ call.analysis_type \notin AnalysisTypes

UnknownAnalysisModeError == <<"Diffusion analysis failed", "Unknown analysis type">>

\* the tail start is determined and the tail passes validation
TailPasses ==
    /\ EqualLengths
    /\ TailStartUsed.ok
    /\ Cardinality(TailEntriesUsable(TailStartUsed.value)) >= 10

\* C7 as stated: analyze with a mode other than the three supported ones
\* fails with the unknown-analysis-mode error, whatever the data and the tail
\* start.
C7_UnknownModeAlwaysReported ==
    UnknownModeCall => ~ret.ok /\ ret.error = UnknownAnalysisModeError

\* C7 amended: analyze with a mode other than the three supported ones always
\* fails; the error is the unknown-analysis-mode error when the tail start is
\* determined and the tail passes validation, and otherwise the error of
\* tail detection or tail validation, which run before the mode is looked at.
C7_UnknownModeAfterTail ==
    UnknownModeCall =>
        /\ ~ret.ok
        /\ ret.value = << >>
        /\ IF TailPasses
           THEN ret.error = UnknownAnalysisModeError /\ ret.data = <<call.analysis_type>>
           ELSE /\ ret.error[1] = "Diffusion analysis failed"
                /\ ret.error[2] \in {"Failed to find tail start", "Tail validation failed",
                                     "Invalid tail region"}

C7_Witness ==
    /\ UnknownModeCall
    /\ TailPasses
    /\ ret.error = UnknownAnalysisModeError

-----------------------------------------------------------------------------
\* the outcome of the first step of analyze that fails, from the components
\* themselves; Returned(<< >>) when no step fails
FirstFailure ==
    IF ~TailStartUsed.ok THEN TailStartUsed
    ELSE
      LET ts == TailStartUsed.value
          validation == validate_tail_region(time_minutes, desorption_rate, ts)
      IN  IF ~validation.ok THEN validation
          ELSE IF ~validation.value.is_valid
          THEN Raised(<<"Invalid tail region">>, validation.value.warnings)
          ELSE
            LET plot == PlotData(time_minutes, desorption_rate, cumulative_hydrogen,
                                 call.analysis_type, ts)
            IN  IF ~plot.ok THEN plot
                ELSE LET reg == perform_linear_regression(plot.value.x, plot.value.y)
                     IN  IF ~reg.ok THEN reg ELSE Returned(<< >>)

\* C8: every failure inside the steps of analyze surfaces as exactly one
\* error that wraps the inner message; analyze never suppresses a failure and
\* never returns a partial result.
C8_FailuresSurfaceOnce ==
    CalledAnalyze =>
        LET failure == FirstFailure
        IN  IF failure.ok
            THEN /\ ret.ok
                 /\ ret.value.analysis_type = call.analysis_type
                 /\ ret.value.tail_start_time = TailStartUsed.value
                 /\ ret.value.num_points >= 3
                 /\ Len(ret.value.x_data) >= 3
                 /\ ret.value.goodness_of_fit \in {"Excellent", "Good", "Fair", "Poor"}
            ELSE /\ ~ret.ok
                 /\ ret.value = << >>
                 /\ ret.error = <<"Diffusion analysis failed">> \o failure.error
                 /\ Len(ret.error) >= 2
                 /\ ret.data = failure.data

\* a failure two levels down, inside the regression step, after an
\* auto-detected tail start
C8_Witness ==
    /\ CalledAnalyze
    /\ call.tail_start = << >>
    /\ ~ret.ok
    /\ ret.value = << >>
    /\ Len(ret.error) = 3
    /\ ret.error[1] = "Diffusion analysis failed"
    /\ ret.error[2] = "Linear regression failed"

-----------------------------------------------------------------------------
CalledLiterature == pc = "done" /\ call.op = "get_literature_D_at_temperature"

CalledArrhenius == pc = "done" /\ call.op = "arrhenius_temperature_correction"

\* C9: no component returns a silent default on failure, apart from the
\* tail-start fallback and the unknown-material fallback: when the
\* temperature correction fails (absolute temperature 0), the operation
\* raises instead of returning a value.
C9_NoSilentDefault ==
    /\ (CalledLiterature /\ call.temperature_C + KelvinOffset = 0) => ~ret.ok
    /\ (CalledArrhenius /\ (call.T_measured + KelvinOffset = 0
                            \/ call.T_target + KelvinOffset = 0)) => ~ret.ok

-----------------------------------------------------------------------------
CalledFindTailStart == pc = "done" /\ call.op = "find_tail_start"

\* no entry is earlier than an entry before it (NaN times aside)
NonDecreasingTime ==
    \A i, j \in 1..Len(time_minutes) :
        (i < j /\ time_minutes[i] # NaN /\ time_minutes[j] # NaN)
        => Le(time_minutes[i], time_minutes[j])

ValidEntries ==
    {i \in 1..Len(time_minutes) :
        Gt(desorption_rate[i], 0) /\ IsFinite(desorption_rate[i]) /\ IsFinite(time_minutes[i])}

MaxValidRate ==
    CHOOSE m \in {desorption_rate[i] : i \in ValidEntries} :
        \A i \in ValidEntries : Le(desorption_rate[i], m)

\* the valid entries with rate < max(rate) * peak_fraction and time > min_time
CandidateEntries ==
    {i \in ValidEntries :
        /\ LtFraction(desorption_rate[i], MaxValidRate,
                      call.peak_fraction[1], call.peak_fraction[2])
        /\ Gt(time_minutes[i], call.min_time)}

\* C10: on a time sequence in non-decreasing order, when a candidate exists
\* find_tail_start returns the smallest candidate time.
C10_SmallestCandidate ==
    (CalledFindTailStart /\ ret.ok /\ NonDecreasingTime /\ CandidateEntries # {})
    => /\ \E i \in CandidateEntries : ret.value = time_minutes[i]
       /\ \A i \in CandidateEntries : Le(ret.value, time_minutes[i])

C10_Witness ==
    /\ CalledFindTailStart
    /\ ret.ok
    /\ NonDecreasingTime
    /\ Cardinality({time_minutes[i] : i \in CandidateEntries}) >= 2
    /\ \A i \in CandidateEntries : Le(ret.value, time_minutes[i])

-----------------------------------------------------------------------------
\* max(a, b) of Python: b when b > a, else a
FloatMax(a, b) == IF Gt(b, a) THEN b ELSE a

\* the fallback path: the call returned and no candidate exists
FallbackTaken == CalledFindTailStart /\ ret.ok /\ CandidateEntries = {}

\* the times of the valid entries, in input order
ValidTimes ==
    LET idx == IndexSeq(Len(time_minutes), ValidEntries)
    IN  [k \in 1..Len(idx) |-> time_minutes[idx[k]]]

\* C11 as stated: on the fallback path find_tail_start returns
\* max(min_time, time[len(time)//3]) with time the sequence passed as argument.
C11_FallbackOnArgument ==
    FallbackTaken =>
        ret.value = FloatMax(call.min_time, time_minutes[(Len(time_minutes) \div 3) + 1])

\* C11 amended: on the fallback path find_tail_start returns
\* max(min_time, valid[len(valid)//3]) with valid the times of the entries
\* that passed the filter (rate > 0, rate and time finite), in input order.
C11_FallbackOnValidTimes ==
    FallbackTaken =>
        ret.value = FloatMax(call.min_time, ValidTimes[(Len(ValidTimes) \div 3) + 1])

\* the fallback on a series with a filtered-out entry, where the two differ
C11_Witness ==
    /\ FallbackTaken
    /\ Len(ValidTimes) < Len(time_minutes)
    /\ ret.value = ValidTimes[(Len(ValidTimes) \div 3) + 1]
    /\ ret.value # time_minutes[(Len(time_minutes) \div 3) + 1]

-----------------------------------------------------------------------------
\* C12: find_tail_start fails with the insufficient-data error when the
\* lengths differ or are below 10, and when fewer than 5 entries have a
\* positive rate and finite values; in every other case it returns a value.
C12_FindTailStartFailures ==
    CalledFindTailStart =>
        IF Len(time_minutes) # Len(desorption_rate) \/ Len(time_minutes) < 10
        THEN /\ ~ret.ok
             /\ ret.error = <<"Failed to find tail start", "Insufficient data for tail analysis">>
        ELSE IF Cardinality(ValidEntries) < 5
        THEN /\ ~ret.ok
             /\ ret.error = <<"Failed to find tail start", "Insufficient valid data points">>
        ELSE ret.ok /\ ret.value # NaN

\* 10 or more entries of which only 4 are valid
C12_Witness ==
    /\ CalledFindTailStart
    /\ Len(time_minutes) = Len(desorption_rate)
    /\ Len(time_minutes) >= 10
    /\ Cardinality(ValidEntries) = 4
    /\ ret.error = <<"Failed to find tail start", "Insufficient valid data points">>

-----------------------------------------------------------------------------
CalledValidate == pc = "done" /\ call.op = "validate_tail_region"

ShortDurationWarning == "Short tail duration may affect analysis quality"

\* last minus first time, in input order, of the entries in S; 0 for fewer than 2
SpanOf(S) ==
    LET idx == IndexSeq(Len(time_minutes), S)
    IN  IF Len(idx) > 1 THEN time_minutes[idx[Len(idx)]] - time_minutes[idx[1]] ELSE 0

\* what validate_tail_region reports when count is taken over the entries S
ReportsOn(S) ==
    /\ ret.ok
    /\ ret.value.is_valid = (Cardinality(S) >= 10)
    /\ ret.value.num_points = Cardinality(S)
    /\ (InsufficientPointsWarning \in Range(ret.value.warnings)) = (Cardinality(S) < 10)
    /\ (ShortDurationWarning \in Range(ret.value.warnings)) = (SpanOf(S) < 60)

\* C13 as stated: validate_tail_region returns is_valid = (count >= 10), count
\* being the number of entries with time >= tail_start and positive finite
\* rate; it warns when count < 10 and when the span is < 60 minutes, and
\* neither makes it fail.
C13_ValidateCountsPositiveRate ==
    (CalledValidate /\ EqualLengths) => ReportsOn(TailEntriesPositiveFinite(call.tail_start))

\* C13 amended: the same, with count the number of entries with time >=
\* tail_start, positive finite rate and finite time.
C13_ValidateCountsUsable ==
    (CalledValidate /\ EqualLengths) => ReportsOn(TailEntriesUsable(call.tail_start))

\* an invalid tail of 9 entries that spans at least an hour
C13_Witness ==
    /\ CalledValidate
    /\ EqualLengths
    /\ Cardinality(TailEntriesUsable(call.tail_start)) = 9
    /\ ret.ok
    /\ ~ret.value.is_valid
    /\ ret.value.warnings = <<InsufficientPointsWarning>>

-----------------------------------------------------------------------------
CalledTransform == pc = "done" /\ call.op = "transform"

\* the series a transform reads besides time
TransformSource ==
    IF call.analysis_type = "sqrt_t" THEN cumulative_hydrogen ELSE desorption_rate

\* the filters as the claim words them
ClaimedKept ==
    {i \in TailEntries(call.tail_start) :
        /\ Gt(time_minutes[i], 0)
        /\ IF call.analysis_type = "sqrt_t"
           THEN IsFinite(cumulative_hydrogen[i])
           ELSE Gt(desorption_rate[i], 0)}

\* the filters with every finiteness test they have
ActuallyKept ==
    {i \in TailEntries(call.tail_start) :
        /\ Gt(time_minutes[i], 0)
        /\ CASE call.analysis_type = "1_sqrt_t" ->
                   Gt(desorption_rate[i], 0) /\ IsFinite(desorption_rate[i])
             [] call.analysis_type = "log_log" ->
                   Gt(desorption_rate[i], 0) /\ IsFinite(desorption_rate[i])
                   /\ IsFinite(time_minutes[i])
             [] call.analysis_type = "sqrt_t" ->
                   IsFinite(cumulative_hydrogen[i]) /\ IsFinite(time_minutes[i])}

InsufficientTailData == "Insufficient valid data points in tail region"

\* the transform kept exactly the entries S, in input order, or failed for
\* want of 3 of them
KeepsExactly(S) ==
    IF Cardinality(S) < 3
    THEN ~ret.ok /\ Len(ret.error) = 2 /\ ret.error[2] = InsufficientTailData
    ELSE /\ ret.ok
         /\ ret.value.src = IndexSeq(Len(time_minutes), S)
         /\ Len(ret.value.x) = Cardinality(S)
         /\ Len(ret.value.y) = Cardinality(S)
         /\ \A k \in 1..Len(ret.value.src) :
              /\ ret.value.x[k] = TransformedX(call.analysis_type, ret.value.src[k])
              /\ ret.value.y[k] = TransformedY(call.analysis_type, ret.value.src[k])

SameLengths == Len(time_minutes) = Len(TransformSource)

\* C14 as stated: each transform keeps exactly the entries with time >=
\* tail_start that pass rate > 0 and time > 0 (1_sqrt_t, log_log) or time > 0
\* with a finite cumulative (sqrt_t), in input order, and fails with the
\* insufficient-tail-data error iff fewer than 3 survive.
C14_TransformKeepsClaimed ==
    (CalledTransform /\ SameLengths) => KeepsExactly(ClaimedKept)

\* C14 amended: on sequences of equal length each transform keeps exactly the
\* entries with time >= tail_start and time > 0 that have a positive finite
\* rate (1_sqrt_t), a positive finite rate and a finite time (log_log), or a
\* finite cumulative and a finite time (sqrt_t), in input order, and fails
\* with the insufficient-tail-data error iff fewer than 3 survive.
C14_TransformKeepsFinite ==
    (CalledTransform /\ SameLengths) => KeepsExactly(ActuallyKept)

\* a transform that dropped tail entries and kept at least 3
C14_Witness ==
    /\ CalledTransform
    /\ SameLengths
    /\ ret.ok
    /\ Cardinality(ActuallyKept) >= 3
    /\ Cardinality(ActuallyKept) < Cardinality(TailEntries(call.tail_start))
    /\ ret.value.src = IndexSeq(Len(time_minutes), ActuallyKept)

-----------------------------------------------------------------------------
CalledRegress == pc = "done" /\ call.op = "perform_linear_regression"

\* the regression of the Regress step reads x from the times, y from the rates
RegressLengthsBad ==
    Len(time_minutes) # Len(desorption_rate) \/ Len(time_minutes) < 3

\* |y| <= noise_threshold
AtOrBelowNoise(v) == v = 0 \/ v = Tiny

\* the points left once every point with |y| <= noise_threshold is dropped
RemainingAfterNoise ==
    {k \in 1..Len(desorption_rate) : ~AtOrBelowNoise(desorption_rate[k])}

InsufficientDataForRegression ==
    <<"Linear regression failed", "Insufficient data for regression analysis">>

\* C15: the regression fails with the insufficient-data error when the
\* lengths differ or are below 3; otherwise it drops every point with |y| <=
\* noise_threshold and fails with the insufficient-data-above-noise error
\* when fewer than 3 remain; the length check is decided first.
C15_RegressionFailures ==
    CalledRegress =>
        IF RegressLengthsBad
        THEN ~ret.ok /\ ret.error = InsufficientDataForRegression
        ELSE IF Cardinality(RemainingAfterNoise) < 3
        THEN /\ ~ret.ok
             /\ ret.error = <<"Linear regression failed", InsufficientDataAboveNoise>>
        ELSE /\ ret.error # InsufficientDataForRegression
             /\ ret.ok => /\ ret.value.num_points >= 3
                          /\ ret.value.num_points <= Cardinality(RemainingAfterNoise)

\* both checks would fail, and the length check is the one reported
C15_Witness ==
    /\ CalledRegress
    /\ Len(time_minutes) # Len(desorption_rate)
    /\ Len(time_minutes) >= 3
    /\ Cardinality(RemainingAfterNoise) < 3
    /\ ret.error = InsufficientDataForRegression

-----------------------------------------------------------------------------
\* the points the fit used: those with |y| > noise_threshold
FilteredPoints ==
    {k \in 1..Len(desorption_rate) :
        desorption_rate[k] # NaN /\ ~AtOrBelowNoise(desorption_rate[k])}

\* the x values the fit used
FilteredX == {time_minutes[k] : k \in FilteredPoints}

\* 100 numbers evenly spaced from min(x_filtered) to max(x_filtered), and the
\* 100 values of the fitted line at them
FitLineAsClaimed ==
    LET fit_x == ret.value.fit_x
        fit_y == ret.value.fit_y
    IN  /\ Len(fit_x) = 100
        /\ Len(fit_y) = 100
        /\ \A i \in 1..100 : IsNum(fit_x[i]) /\ IsNum(fit_y[i])
        /\ IsNum(ret.value.slope) /\ IsNum(ret.value.intercept)
        /\ \A v \in FilteredX : 99 * v >= fit_x[1] /\ 99 * v <= fit_x[100]
        /\ \E v \in FilteredX : 99 * v = fit_x[1]
        /\ \E v \in FilteredX : 99 * v = fit_x[100]
        /\ \A i \in 1..99 : fit_x[i + 1] - fit_x[i] = fit_x[2] - fit_x[1]
        /\ \A i \in 1..100 :
             fit_y[i] = ret.value.intercept + (ret.value.slope * (fit_x[i] \div 99)) \div 10000

\* C16: a successful fit returns exactly 100 fit_x values, evenly
\* spaced, from min(x_filtered) to max(x_filtered), and exactly 100 fit_y
\* values with fit_y[i] = slope * fit_x[i] + intercept.  (fit_x is in 1/99 of
\* the x unit.)
C16_FitLine ==
    (CalledRegress /\ ret.ok) => FitLineAsClaimed

-----------------------------------------------------------------------------
CalledAssess == pc = "done" /\ call.op = "assess_fit_quality"

\* the rule of one grade: R2 >= r, p < p_max, n >= n_min
RuleHolds(r, p_max, n_min) ==
    call.r_squared >= r /\ call.p_value < p_max /\ call.num_points >= n_min

\* C17: assess_fit_quality returns the first matching grade of the ordered
\* rules (Excellent: R2 >= 0.95, p < 0.01, n >= 10; Good: R2 >= 0.90, p <
\* 0.05, n >= 8; Fair: R2 >= 0.80, p < 0.10, n >= 5; else Poor) and always
\* returns exactly one of the four grades.
C17_FirstMatchingGrade ==
    CalledAssess =>
        /\ ret.ok
        /\ ret.value \in {"Excellent", "Good", "Fair", "Poor"}
        /\ (ret.value = "Excellent") = RuleHolds(9500, 10, 10)
        /\ (ret.value = "Good") = (~RuleHolds(9500, 10, 10) /\ RuleHolds(9000, 50, 8))
        /\ (ret.value = "Fair") = (/\ ~RuleHolds(9500, 10, 10)
                                   /\ ~RuleHolds(9000, 50, 8)
                                   /\ RuleHolds(8000, 100, 5))

\* R2 passes the Excellent rule, n does not: the second rule decides
C17_Witness ==
    /\ CalledAssess
    /\ call.r_squared >= 9500
    /\ call.p_value < 10
    /\ call.num_points = 9
    /\ ret.value = "Good"

-----------------------------------------------------------------------------
Tier(grade) ==
    CASE grade = "Poor" -> 0
      [] grade = "Fair" -> 1
      [] grade = "Good" -> 2
      [] grade = "Excellent" -> 3

\* C18: for fixed p_value and num_points, the grade of a larger r_squared is
\* never a lower tier than the grade of a smaller one.
C18_GradeOrdering ==
    CalledAssess =>
        \A r1 \in RSquaredArgs :
            r1 <= call.r_squared =>
                Tier(assess_fit_quality(r1, call.p_value, call.num_points)) <= Tier(ret.value)

\* a larger r_squared with a strictly higher tier than a smaller one
C18_Witness ==
    /\ CalledAssess
    /\ ret.value = "Good"
    /\ \E r1 \in RSquaredArgs :
          /\ r1 < call.r_squared
          /\ assess_fit_quality(r1, call.p_value, call.num_points) = "Fair"

-----------------------------------------------------------------------------
\* the diffusion coefficient is asked for and the mode allows it
ComputesD == call.calculate_D /\ call.analysis_type = "1_sqrt_t"

\* C19: analyze computes the diffusion coefficient only when calculate_D is
\* set and the mode is 1_sqrt_t; in every other successful call the result's
\* diffusion_coefficient is 0.0.
C19_DOnlyInInverseSqrtMode ==
    (CalledAnalyze /\ ret.ok) =>
        ret.value.diffusion_coefficient =
            IF ComputesD
            THEN calculate_diffusion_coefficient(ret.value.slope, call.sample_thickness,
                                                 DefaultConcentrationRatio).value
            ELSE 0

\* D asked for in another mode, on a fit with a slope
C19_Witness ==
    /\ CalledAnalyze
    /\ ret.ok
    /\ call.calculate_D
    /\ call.analysis_type = "sqrt_t"
    /\ ret.value.slope # 0
    /\ ret.value.diffusion_coefficient = 0

-----------------------------------------------------------------------------
\* C20 as stated: in every successful analyze call the result's thickness
\* equals the sample thickness supplied, whether or not D was computed.
C20_ThicknessAlwaysRecorded ==
    (CalledAnalyze /\ ret.ok) => ret.value.thickness = call.sample_thickness

\* C20 amended: the result's thickness equals the sample thickness supplied
\* when the diffusion coefficient is computed (calculate_D set, mode
\* 1_sqrt_t); in every other successful call it is 0.0.
C20_ThicknessWithD ==
    (CalledAnalyze /\ ret.ok) =>
        ret.value.thickness = IF ComputesD THEN call.sample_thickness ELSE 0

\* a successful call without D: the thickness supplied is not in the result
C20_Witness ==
    /\ CalledAnalyze
    /\ ret.ok
    /\ ~call.calculate_D
    /\ call.analysis_type = "1_sqrt_t"
    /\ call.sample_thickness > 0
    /\ ret.value.thickness = 0

-----------------------------------------------------------------------------
\* 0 <= r_squared <= 1 (r_squared in 1e-4)
RSquaredInUnitInterval == Ge(ret.value.r_squared, 0) /\ Le(ret.value.r_squared, 10000)

\* C22: every regression result returned by
\* perform_linear_regression, and therefore every result returned by
\* analyze, has 0 <= r_squared <= 1.
C22_RSquaredBounded ==
    /\ (CalledRegress /\ ret.ok) => RSquaredInUnitInterval
    /\ (CalledAnalyze /\ ret.ok) => RSquaredInUnitInterval

-----------------------------------------------------------------------------
CalledD == pc = "done" /\ call.op = "calculate_diffusion_coefficient"

\* -v on floats
Neg(v) == IF v = NaN THEN NaN ELSE -v

\* the call with the slope negated gives back the same
SignSymmetric ==
    ret = calculate_diffusion_coefficient(Neg(call.slope), call.sample_thickness,
                                          call.surface_concentration_ratio)

\* C21: calculate_diffusion_coefficient returns a value >= 0 for
\* every slope and thickness, returns exactly 0.0 when slope == 0, and returns
\* the same value for slope and -slope.
C21_NonNegativeForEveryInput ==
    CalledD =>
        /\ ret.ok
        /\ Ge(ret.value, 0)
        /\ call.slope = 0 => ret.value = 0
        /\ SignSymmetric

-----------------------------------------------------------------------------
\* a number: not NaN, not infinite, not Huge
Ordinary(v) == Abs(v) < NaN

\* pi * (product / 100)^2 / 4 in 1e-3, rounded up: the formula with delta C = 1
FormulaWithUnitDeltaC(product) ==
    LET q == (Abs(product) + 99) \div 100
    IN  (((q * q + 999) \div 1000) * 3142 + 3999) \div 4000

\* C30: the value returned by calculate_diffusion_coefficient does not depend
\* on its concentration-ratio argument: any two concentration ratios give the
\* same result, equal to the formula evaluated with delta C = 1.
C30_IndependentOfConcentrationRatio ==
    CalledD =>
        /\ \A ratio \in ConcentrationRatioArgs :
              ret = calculate_diffusion_coefficient(call.slope, call.sample_thickness, ratio)
        /\ (call.slope # 0 /\ Ordinary(call.slope) /\ Ordinary(call.sample_thickness)) =>
              ret = Returned(FormulaWithUnitDeltaC(call.slope * call.sample_thickness))

\* a concentration ratio of 2 that leaves D at its delta C = 1 value
C30_Witness ==
    /\ CalledD
    /\ call.surface_concentration_ratio = 2000
    /\ call.slope = 1000
    /\ call.sample_thickness = 100
    /\ ret = Returned(786)

-----------------------------------------------------------------------------
\* the materials of the literature table
KnownMaterials == {"steel", "iron", "austenitic_steel", "ferritic_steel"}

\* the record returned for steel at the temperature of the call
SteelRecord == get_literature_D_at_temperature("steel", call.temperature_C)

\* C23 as stated: get_literature_D_at_temperature called with any material
\* name outside {steel, iron, austenitic_steel, ferritic_steel} returns
\* exactly the record it returns for steel at the same temperature, and does
\* not fail.
C23_UnknownMaterialIsSteel ==
    (CalledLiterature /\ call.material \notin KnownMaterials) =>
        ret.ok /\ ret = SteelRecord

\* C23 amended: the material name is compared in lower case: a name whose
\* lower-case form is outside the table returns exactly the record returned
\* for steel at the same temperature, naming steel as the material, and does
\* not fail; a name whose lower-case form is in the table returns that
\* material's record.
C23_UnknownLowerCaseMaterialIsSteel ==
    CalledLiterature =>
        /\ ret.ok
        /\ Lower(call.material) \notin KnownMaterials =>
              /\ ret = SteelRecord
              /\ ret.value.material = "steel"
              /\ ret.value.base_D_25C = BaseValues["steel"]
              /\ ret.value.activation_energy = ActivationEnergies["steel"]
        /\ Lower(call.material) \in KnownMaterials =>
              ret = get_literature_D_at_temperature(Lower(call.material), call.temperature_C)

\* copper at 100 degrees: steel's record, corrected upwards from its 25 degree value
C23_Witness ==
    /\ CalledLiterature
    /\ call.material = "copper"
    /\ call.temperature_C = 10000
    /\ ret.ok
    /\ ret.value.material = "steel"
    /\ ret.value.error = << >>
    /\ ret.value.D_literature > ret.value.base_D_25C

-----------------------------------------------------------------------------
\* what a recorded call was given: the three series and the arguments
Given(h) == <<h.time_minutes, h.desorption_rate, h.cumulative_hydrogen, h.call>>

-----------------------------------------------------------------------------
CalledPlot == pc = "done" /\ call.op = "create_diffusion_plot"

\* C25: create_diffusion_plot always hands the engine three sequences of
\* equal length (time, rate, cumulative), also when filter_noise is set and
\* the noise filter removes points from the tail.
C25_HandsEqualLengths ==
    (CalledPlot /\ call.handed.ok) =>
        /\ Len(call.handed.value.desorption_rate) = Len(call.handed.value.time_data)
        /\ Len(call.handed.value.cumulative_hydrogen) = Len(call.handed.value.time_data)

-----------------------------------------------------------------------------
CalledFilterZeros == pc = "done" /\ call.op = "filter_zeros"

\* the frame given to filter_zeros, or the frame it returned, has a row (time 0, value 0)
HasOrigin(time, value) == \E i \in 1..Len(time) : time[i] = 0 /\ value[i] = 0

\* C26: filter_zeros with keep_origin=True always keeps the (time 0, value 0)
\* row: whenever the input frame contains such a row, the output frame
\* contains it too, for every detection_limit and threshold_percent.
C26_KeepsOrigin ==
    (CalledFilterZeros /\ call.keep_origin /\ HasOrigin(time_minutes, desorption_rate)) =>
        ret.ok /\ HasOrigin(ret.value.time, ret.value.value)

-----------------------------------------------------------------------------
\* C27: after any sequence of process_calibration_folder calls without
\* cal_name and delete_calibration calls on one day, every process call that
\* returns used an ID that was not a key of the database: it adds one
\* calibration and overwrites none.
C27_AutoIdIsNew ==
    [][(call'.op = "process_calibration_folder" /\ ret'.ok) =>
          /\ ret'.value.calibration_id \notin DOMAIN calibrations
          /\ Cardinality(DOMAIN calibrations') = Cardinality(DOMAIN calibrations) + 1
          /\ \A k \in DOMAIN calibrations : calibrations'[k] = calibrations[k]]_vars

-----------------------------------------------------------------------------
\* entries at or after ts whose cumulative value the sqrt_t transform keeps
TailEntriesForSqrtT(ts) ==
    {i \in TailEntries(ts) :
        /\ IsFinite(cumulative_hydrogen[i])
        /\ IsFinite(time_minutes[i])
        /\ Gt(time_minutes[i], 0)}

\* C28: in every mode, sqrt_t included, analyze succeeds only if at least 10
\* entries with time >= tail_start have a positive finite rate: the tail
\* validation counts rate entries, never cumulative entries.
C28_SuccessNeedsTenRateEntries ==
    (CalledAnalyze /\ ret.ok) =>
        /\ EqualLengths
        /\ TailStartUsed.ok
        /\ Cardinality(TailEntriesPositiveFinite(TailStartUsed.value)) >= 10

\* sqrt_t succeeds on a tail with exactly 10 positive finite rates, and fits
\* more points than that: a tail entry whose rate does not count
C28_Witness ==
    /\ CalledAnalyze
    /\ call.analysis_type = "sqrt_t"
    /\ ret.ok
    /\ Cardinality(TailEntriesPositiveFinite(TailStartUsed.value)) = 10
    /\ Cardinality(TailEntriesForSqrtT(TailStartUsed.value)) > 10
    /\ ret.value.num_points > 10

-----------------------------------------------------------------------------
\* C29: whenever find_tail_start returns, the returned time is >= min_time:
\* strictly greater than min_time when a threshold-crossing candidate
\* exists, and at least min_time on the fallback path.
C29_ReturnsAtLeastMinTime ==
    (CalledFindTailStart /\ ret.ok) =>
        /\ Ge(ret.value, call.min_time)
        /\ CandidateEntries # {} => Gt(ret.value, call.min_time)

\* the fallback path where the entry a third of the way in lies before
\* min_time, and entries below the threshold lie before min_time too
C29_Witness ==
    /\ FallbackTaken
    /\ Lt(ValidTimes[(Len(ValidTimes) \div 3) + 1], call.min_time)
    /\ ret.value = call.min_time
    /\ \E i \in ValidEntries :
          /\ LtFraction(desorption_rate[i], MaxValidRate,
                        call.peak_fraction[1], call.peak_fraction[2])
          /\ Le(time_minutes[i], call.min_time)

====
